---- MODULE Spec2Model ----
(***************************************************************************)
(* Progression state of the StarCraft 2 client (worlds/sc2/client.py):     *)
(* the location codec, the accessibility of campaigns, layouts and         *)
(* missions, and the accumulation of received items into tech state.       *)
(***************************************************************************)
EXTENDS Integers, Sequences, FiniteSets, Bags, TLC

VARIABLES
    \* location codec (get_location_id / build_location_to_mission_mapping)
    mission_id,          \* argument of get_location_id
    objective_id,        \* argument of get_location_id
    loc,                 \* the encoded location id, None before the call
    decoded,             \* <<mission_id, objective>> decoded from loc, NoPair before
    reencoded,           \* get_location_id of the decoded pair, None before
    \* SC2Context
    rule_table,          \* the entry rules of the hierarchy, by rule id
    checked_locations,   \* ctx.checked_locations
    items_received,      \* ctx.items_received
    available,           \* last result of calc_available_nodes, NoResult before
    slot_data_version,   \* ctx.slot_data_version
    generic_upgrade_missions, \* ctx.generic_upgrade_missions
    \* the server and the connection
    item_pool,           \* the items the multiworld holds for the slot, by name
    event_list,          \* the items the server has sent to the slot, by name, in order
    delivered,           \* how many of them it has sent since the last connect
    \* callers of calculate_items
    tech,                \* result of calculate_items in use by its caller, or NoTech
    connections,         \* connections made so far, up to MaxConnections
    \* slot options of Kerrigan's level, and the level on_step has computed
    kerrigan_levels_per_mission_completed,
    kerrigan_levels_per_mission_completed_cap,
    kerrigan_total_level_cap,
    kerrigan_primal_status,
    kerrigan_level,      \* result of get_kerrigan_level in use by on_step, or None
    \* slot data of the versions before 4
    mission_req_table,   \* slot_data["mission_req"] of one campaign, parsed to MissionInfo
    legacy_mission_order, \* what parse_mission_req_table has made of it, or NoResult
    legacy_available,    \* the missions found available in it, with the beaten ones, or NoResult
    \* SC2Manager, the launcher tab
    launching,           \* NotLaunching, or the id of the mission being launched
    refresh_from_launching,
    first_check,
    last_checked_locations, \* copy of checked_locations taken by the last draw
    last_data_out_of_date,
    data_out_of_date,    \* ctx.data_out_of_date
    mission_table,       \* what the campaign panel shows
    refreshed,           \* the last step was a refresh tick outside the launching state
    \* ArchipelagoBot.on_step
    bot_pc,              \* where the tech update of on_step is suspended, or "idle"
    last_received_update,
    sent,                \* the messages the present tech update has sent to the game
    snapshot,            \* items_received and checked_locations as calculate_items read them
    \* SC2Context, the launch of a mission
    missions_unlocked,   \* ctx.missions_unlocked
    sc2_run_task,        \* ctx.sc2_run_task: NoTask, or <<the task>>
    orphan_tasks,        \* the tasks the context has referenced and references no more
    play_calls,          \* calls of play_mission so far, up to MaxLaunches
    play_result,         \* <<mission, value returned>> of the last call, NoResult before
    \* StarcraftClientProcessor
    received_output,     \* what the last '/received recent' has printed, NoResult before
    \* Void Trade
    trade_storage,       \* the value the server stores under the team's trade key
    trade_result,        \* what the last trade_receive or trade_send has done, NoResult before
    lock_entry,          \* the lock entry of the value the server stores
    trade_clients,       \* the clients of the team in trade_acquire_storage
    trade_network,       \* the Sets and SetReplies on their way
    \* ArchipelagoBot, one mission run, and the Void Trade fields of its context
    step_pc,             \* where on_step is: "idle" between two steps
    game_state,          \* the local game_state of the present step
    setup_done,          \* bot.setup_done
    game_running,        \* bot.game_running
    can_read_game,       \* bot.can_read_game
    mission_completed,   \* bot.mission_completed
    boni,                \* bot.boni, indexed from 0
    final_mission_ids,   \* ctx.final_mission_ids
    finished_game,       \* ctx.finished_game
    location_checks,     \* the locations of the LocationChecks messages sent, each with the times it was sent
    last_trade_cargo,    \* bot.last_trade_cargo
    last_supply_used,    \* bot.last_supply_used
    trade_underway,      \* ctx.trade_underway
    trade_response,      \* ctx.trade_response
    trade_tasks,         \* the trade_send and trade_receive tasks that have not ended
    trade_sent,          \* the batches of Sets the trades since the last start have sent
    chat                 \* the trade responses on_step has sent to the game

None == -1
NoPair == <<>>
NoResult == <<>>
NoTech == <<>>

codec_vars == <<mission_id, objective_id, loc, decoded, reencoded>>
ctx_vars == <<rule_table, checked_locations, items_received>>
node_vars == <<rule_table, checked_locations, items_received, available>>
item_vars == <<slot_data_version, generic_upgrade_missions, item_pool, event_list, delivered, tech,
              connections>>
kerrigan_options == <<kerrigan_levels_per_mission_completed,
                      kerrigan_levels_per_mission_completed_cap, kerrigan_total_level_cap,
                      kerrigan_primal_status>>
kerrigan_vars == <<kerrigan_options, kerrigan_level>>
legacy_vars == <<mission_req_table, legacy_mission_order, legacy_available>>
gui_vars == <<launching, refresh_from_launching, first_check, last_checked_locations,
             last_data_out_of_date, data_out_of_date, mission_table, refreshed>>
bot_vars == <<bot_pc, last_received_update, sent, snapshot>>
client_vars == <<kerrigan_vars, legacy_vars, gui_vars, bot_vars>>
launch_vars == <<missions_unlocked, sc2_run_task, orphan_tasks, play_calls, play_result>>
cmd_vars == <<received_output>>
storage_vars == <<trade_storage, trade_result>>
lock_vars == <<lock_entry, trade_clients, trade_network>>
objective_vars == <<step_pc, game_state, setup_done, game_running, can_read_game,
                    mission_completed, boni, final_mission_ids, finished_game, location_checks>>
void_vars == <<last_trade_cargo, last_supply_used, trade_underway, trade_response,
               trade_tasks, trade_sent, chat>>
step_vars == <<objective_vars, void_vars>>
session_vars == <<launch_vars, cmd_vars, storage_vars, lock_vars, step_vars>>
vars == <<codec_vars, node_vars, item_vars, client_vars, session_vars>>

(***************************************************************************)
(* Location codec                                                          *)
(***************************************************************************)
VICTORY_MODULO == 100
SC2WOL_LOC_ID_OFFSET == 1000
SC2HOTS_LOC_ID_OFFSET == 20000000
ALL_IN_id == 29

\* Largest mission id of the modelled mission table (ids start at 1).
MaxMissionId == 33

MissionIds == 1..MaxMissionId
ObjectiveIds == 0..(VICTORY_MODULO - 1)

get_location_offset_no_rebase(m) ==
    IF m <= ALL_IN_id THEN SC2WOL_LOC_ID_OFFSET ELSE SC2HOTS_LOC_ID_OFFSET

get_location_offset(m) ==
    IF m <= ALL_IN_id
        THEN SC2WOL_LOC_ID_OFFSET
        ELSE SC2HOTS_LOC_ID_OFFSET - ALL_IN_id * VICTORY_MODULO

get_location_id(m, o) ==
    get_location_offset(m) + m * VICTORY_MODULO + o

\* The decoder of build_location_to_mission_mapping: the offset is chosen by
\* the location id, then divmod by VICTORY_MODULO.
decode_offset(l) ==
    IF l < SC2HOTS_LOC_ID_OFFSET
        THEN SC2WOL_LOC_ID_OFFSET
        ELSE SC2HOTS_LOC_ID_OFFSET - ALL_IN_id * VICTORY_MODULO

decode_location(l) ==
    <<(l - decode_offset(l)) \div VICTORY_MODULO, (l - decode_offset(l)) % VICTORY_MODULO>>

(***************************************************************************)
(* Mission hierarchy and entry rules                                       *)
(***************************************************************************)
\* A received item, NetUtils.NetworkItem(item, location, player, flags).
NetworkItem(item, location, player, flags) ==
    [item |-> item, location |-> location, player |-> player, flags |-> flags]

\* An item whose received count an entry rule may ask for.
RULE_ITEM == 900

\* Rule references held in SubRuleRuleData.sub_rules.
SubRule(rule_id) == [kind |-> "sub", rule_id |-> rule_id]
CountMissionsRuleData(mission_ids, amount) ==
    [kind |-> "missions", mission_ids |-> mission_ids, amount |-> amount]
CountItemsRule(item_ids, amount) ==
    [kind |-> "items", item_ids |-> item_ids, amount |-> amount]
SubRuleRuleData(sub_rules, amount) == [sub_rules |-> sub_rules, amount |-> amount]

EMPTY_SLOT == -1

\* One campaign holding one layout with a single column: mission 10, an
\* empty slot, mission 11. entry_rule is the id of the node's SubRuleRuleData.
custom_mission_order ==
    << [entry_rule |-> 0,
        layouts |-> << [entry_rule |-> 1,
                        missions |-> << << [mission_id |-> 10, entry_rule |-> 2],
                                           [mission_id |-> EMPTY_SLOT, entry_rule |-> 4],
                                           [mission_id |-> 11, entry_rule |-> 3] >> >> ] >> ] >>

\* Rule ids whose rule is chosen at session start; the empty slot's rule is
\* the rule with no requirement.
FreeRuleIds == 0..3
RuleIds == 0..4
NextRule(r) == (r + 1) % Cardinality(FreeRuleIds)
PrevRule(r) == (r + Cardinality(FreeRuleIds) - 1) % Cardinality(FreeRuleIds)

\* The rules a session may give to rule id r: no requirement, counts of beaten
\* missions and of received items, and references to the neighbouring rules
\* and to itself, so that the graph may contain back-references.
RuleShapes(r) ==
    << SubRuleRuleData(<<>>, 0),
      SubRuleRuleData(<<CountMissionsRuleData(<<10>>, 1)>>, 1),
      SubRuleRuleData(<<SubRule(NextRule(r))>>, 1),
      SubRuleRuleData(<<SubRule(PrevRule(r))>>, 1),
      SubRuleRuleData(<<SubRule(PrevRule(r)), CountMissionsRuleData(<<10, 11>>, 1)>>, 1),
      SubRuleRuleData(<<CountItemsRule({RULE_ITEM}, 1), SubRule(NextRule(r))>>, 2),
      SubRuleRuleData(<<SubRule(r), SubRule(NextRule(r)),
                        CountMissionsRuleData(<<10, 11>>, 2)>>, 2) >>

\* Sum of the received counts of the items of S.
RECURSIVE ReceivedCount(_, _)
ReceivedCount(S, received_items) ==
    IF S = {} THEN 0
    ELSE LET item == CHOOSE y \in S : TRUE
         IN (IF item \in DOMAIN received_items THEN received_items[item] ELSE 0)
            + ReceivedCount(S \ {item}, received_items)

\* Slots of a layout in the order calc_available_nodes visits them.
RECURSIVE FlattenColumns(_)
FlattenColumns(columns) ==
    IF columns = <<>> THEN <<>> ELSE Head(columns) \o FlattenColumns(Tail(columns))

SeqToSet(s) == { s[i] : i \in DOMAIN s }

AllLayouts == UNION { SeqToSet(campaign.layouts) : campaign \in SeqToSet(custom_mission_order) }
AllSlots == UNION { SeqToSet(FlattenColumns(layout.missions)) : layout \in AllLayouts }

\* ctx.mission_id_to_entry_rules: for every slot's mission id, the rules of
\* the mission, of its layout and of its campaign.
MissionEntryRules(mission_rule, layout_rule, campaign_rule) ==
    [mission_rule |-> mission_rule, layout_rule |-> layout_rule, campaign_rule |-> campaign_rule]

mission_id_to_entry_rules ==
    [ m \in { slot.mission_id : slot \in AllSlots } |->
        LET campaign == CHOOSE c \in SeqToSet(custom_mission_order) :
                            \E l \in SeqToSet(c.layouts) :
                                \E slot \in SeqToSet(FlattenColumns(l.missions)) : slot.mission_id = m
            layout == CHOOSE l \in SeqToSet(campaign.layouts) :
                            \E slot \in SeqToSet(FlattenColumns(l.missions)) : slot.mission_id = m
            mission == CHOOSE slot \in SeqToSet(FlattenColumns(layout.missions)) : slot.mission_id = m
        IN MissionEntryRules(mission.entry_rule, layout.entry_rule, campaign.entry_rule) ]

\* A mission counted as completed once any of its locations is checked.
is_mission_completed_any_objective(checked, m) ==
    \E o \in ObjectiveIds : get_location_id(m, o) \in checked

is_mission_completed(checked, m) == get_location_id(m, 0) \in checked

\* Result of one is_accessible call: the answer, the accessible-rule cache and
\* the in-progress list as the call leaves them, and whether the recursion
\* went deeper than the number of rules (it would not return).
RuleResult(ok, accessible_rules, seen_rules, diverged) ==
    [ok |-> ok, accessible_rules |-> accessible_rules,
     seen_rules |-> seen_rules, diverged |-> diverged]

CountRuleIsAccessibleExact(rule, beaten_missions, received_items) ==
    IF rule.kind = "missions"
        THEN Cardinality({ i \in DOMAIN rule.mission_ids :
                            rule.mission_ids[i] \in beaten_missions }) = rule.amount
        ELSE ReceivedCount(rule.item_ids, received_items) = rule.amount

CountRuleIsAccessible(rule, beaten_missions, received_items) ==
    IF rule.kind = "missions"
        THEN Cardinality({ i \in DOMAIN rule.mission_ids :
                            rule.mission_ids[i] \in beaten_missions }) >= rule.amount
        ELSE ReceivedCount(rule.item_ids, received_items) >= rule.amount

ReenteredRuleWrong(accessible_rules, seen_rules) ==
    RuleResult(TRUE, accessible_rules, seen_rules, FALSE)

\* A rule re-entered while it is in progress is not accessible.
ReenteredRule(accessible_rules, seen_rules) ==
    RuleResult(FALSE, accessible_rules, seen_rules, FALSE)

\* The id is taken off the in-progress list only when the rule was accessible.
LeaveRuleOnSuccess(seen_rules, rule_id, ok) ==
    IF ok THEN seen_rules \ {rule_id} ELSE seen_rules

\* The rule's id leaves the in-progress list when its evaluation returns,
\* whatever the outcome.
LeaveRule(seen_rules, rule_id, ok) == seen_rules \ {rule_id}

RECURSIVE SubRuleIsAccessible(_, _, _, _, _, _, _)
RECURSIVE SubRulesLoop(_, _, _, _, _, _, _, _, _, _)

\* is_accessible of a rule reference.
RuleIsAccessible(ref, beaten_missions, received_items, table, accessible_rules, seen_rules, fuel) ==
    IF ref.kind = "sub"
        THEN SubRuleIsAccessible(ref.rule_id, beaten_missions, received_items, table,
                                 accessible_rules, seen_rules, fuel)
        ELSE RuleResult(CountRuleIsAccessible(ref, beaten_missions, received_items),
                        accessible_rules, seen_rules, FALSE)

\* The children of a SubRule, in order, until `amount` of them are accessible.
SubRulesLoop(sub_rules, i, count, amount, beaten_missions, received_items, table, accessible_rules, seen_rules, fuel) ==
    IF count >= amount THEN RuleResult(TRUE, accessible_rules, seen_rules, FALSE)
    ELSE IF i > Len(sub_rules) THEN RuleResult(FALSE, accessible_rules, seen_rules, FALSE)
    ELSE LET child == RuleIsAccessible(sub_rules[i], beaten_missions, received_items, table,
                                       accessible_rules, seen_rules, fuel)
         IN IF child.diverged THEN child
            ELSE SubRulesLoop(sub_rules, i + 1, count + (IF child.ok THEN 1 ELSE 0), amount,
                              beaten_missions, received_items, table,
                              child.accessible_rules, child.seen_rules, fuel)

\* SubRuleRuleData.is_accessible(beaten_missions, received_items,
\* mission_id_to_entry_rules, accessible_rules, seen_rules). fuel counts the
\* nesting depth left: it starts above the number of rules.
SubRuleIsAccessible(rule_id, beaten_missions, received_items, table, accessible_rules, seen_rules, fuel) ==
    IF rule_id \in accessible_rules THEN RuleResult(TRUE, accessible_rules, seen_rules, FALSE)
    ELSE IF rule_id \in seen_rules THEN ReenteredRule(accessible_rules, seen_rules)
    ELSE IF fuel = 0 THEN RuleResult(FALSE, accessible_rules, seen_rules, TRUE)
    ELSE LET r == SubRulesLoop(table[rule_id].sub_rules, 1, 0, table[rule_id].amount,
                               beaten_missions, received_items, table,
                               accessible_rules, seen_rules \cup {rule_id}, fuel - 1)
         IN RuleResult(r.ok,
                       IF r.ok THEN r.accessible_rules \cup {rule_id} ELSE r.accessible_rules,
                       LeaveRule(r.seen_rules, rule_id, r.ok),
                       r.diverged)

\* The snapshot the queries read.
Ctx == [rule_table |-> rule_table,
        checked_locations |-> checked_locations,
        items_received |-> items_received]

\* The beaten missions as those with every location of the server checked.
beaten_missions_all_objectives(ctx) ==
    { m \in DOMAIN mission_id_to_entry_rules :
        /\ is_mission_completed(ctx.checked_locations, m)
        /\ \A o \in ObjectiveIds :
              get_location_id(m, o) \in {get_location_id(10, 0), get_location_id(10, 1), get_location_id(11, 0)}
                  => get_location_id(m, o) \in ctx.checked_locations }

beaten_missions_of(ctx) ==
    { m \in DOMAIN mission_id_to_entry_rules : is_mission_completed(ctx.checked_locations, m) }

received_items_of(ctx) ==
    [ item \in { ctx.items_received[i].item : i \in DOMAIN ctx.items_received } |->
        Cardinality({ i \in DOMAIN ctx.items_received : ctx.items_received[i].item = item }) ]

\* Every evaluation of calc_available_nodes starts with an empty in-progress
\* list.
EntryRuleIsAccessible(table, beaten_missions, received_items, rule_id, accessible_rules) ==
    SubRuleIsAccessible(rule_id, beaten_missions, received_items,
                        table, accessible_rules, {}, Cardinality(RuleIds) + 1)

NodesResult(available_missions, available_layouts, available_campaigns, accessible_rules, diverged) ==
    [available_missions |-> available_missions,
     available_layouts |-> available_layouts,
     available_campaigns |-> available_campaigns,
     accessible_rules |-> accessible_rules,
     diverged |-> diverged]

\* for column in layout.missions: for mission in column
RECURSIVE MissionsLoop(_, _, _, _, _, _)
MissionsLoop(table, beaten_missions, received_items, slots, i, st) ==
    IF i > Len(slots) THEN st
    ELSE IF slots[i].mission_id = EMPTY_SLOT THEN MissionsLoop(table, beaten_missions, received_items, slots, i + 1, st)
    ELSE LET r == EntryRuleIsAccessible(table, beaten_missions, received_items, slots[i].entry_rule, st.accessible_rules)
         IN MissionsLoop(table, beaten_missions, received_items, slots, i + 1,
                NodesResult(IF r.ok THEN Append(st.available_missions, slots[i].mission_id)
                                    ELSE st.available_missions,
                            st.available_layouts, st.available_campaigns,
                            r.accessible_rules, st.diverged \/ r.diverged))

\* for layout_idx, layout in enumerate(campaign.layouts)
RECURSIVE LayoutsLoop(_, _, _, _, _, _, _)
LayoutsLoop(table, beaten_missions, received_items, campaign_idx, layouts, i, st) ==
    IF i > Len(layouts) THEN st
    ELSE LET r == EntryRuleIsAccessible(table, beaten_missions, received_items, layouts[i].entry_rule, st.accessible_rules)
             entered == NodesResult(st.available_missions,
                            [st.available_layouts EXCEPT
                                ![campaign_idx] = Append(@, i - 1)],
                            st.available_campaigns, r.accessible_rules,
                            st.diverged \/ r.diverged)
             skipped == NodesResult(st.available_missions, st.available_layouts,
                            st.available_campaigns, r.accessible_rules,
                            st.diverged \/ r.diverged)
         IN LayoutsLoop(table, beaten_missions, received_items, campaign_idx, layouts, i + 1,
                IF r.ok THEN MissionsLoop(table, beaten_missions, received_items, FlattenColumns(layouts[i].missions), 1, entered)
                        ELSE skipped)

RECURSIVE CampaignsLoopUngated(_, _, _, _, _)
CampaignsLoopUngated(table, beaten_missions, received_items, i, st) ==
    IF i > Len(custom_mission_order) THEN st
    ELSE LET campaign == custom_mission_order[i]
             r == EntryRuleIsAccessible(table, beaten_missions, received_items, campaign.entry_rule, st.accessible_rules)
             entered == NodesResult(st.available_missions, st.available_layouts,
                            IF r.ok THEN Append(st.available_campaigns, i - 1)
                                    ELSE st.available_campaigns,
                            r.accessible_rules, st.diverged \/ r.diverged)
         IN CampaignsLoopUngated(table, beaten_missions, received_items, i + 1,
                LayoutsLoop(table, beaten_missions, received_items, i - 1, campaign.layouts, 1, entered))

\* for campaign_idx, campaign in enumerate(ctx.custom_mission_order)
RECURSIVE CampaignsLoop(_, _, _, _, _)
CampaignsLoop(table, beaten_missions, received_items, i, st) ==
    IF i > Len(custom_mission_order) THEN st
    ELSE LET campaign == custom_mission_order[i]
             r == EntryRuleIsAccessible(table, beaten_missions, received_items, campaign.entry_rule, st.accessible_rules)
             entered == NodesResult(st.available_missions, st.available_layouts,
                            Append(st.available_campaigns, i - 1), r.accessible_rules,
                            st.diverged \/ r.diverged)
             skipped == NodesResult(st.available_missions, st.available_layouts,
                            st.available_campaigns, r.accessible_rules,
                            st.diverged \/ r.diverged)
         IN CampaignsLoop(table, beaten_missions, received_items, i + 1,
                IF r.ok THEN LayoutsLoop(table, beaten_missions, received_items, i - 1, campaign.layouts, 1, entered)
                        ELSE skipped)

calc_available_nodes(ctx) ==
    CampaignsLoop(ctx.rule_table, beaten_missions_of(ctx), received_items_of(ctx), 1,
        NodesResult(<<>>,
                    [campaign_idx \in 0..(Len(custom_mission_order) - 1) |-> <<>>],
                    <<>>, {}, FALSE))

is_mission_available(ctx, mission_id_to_check) ==
    mission_id_to_check \in SeqToSet(calc_available_nodes(ctx).available_missions)

(***************************************************************************)
(* Mission requirements of the slot data before version 4                  *)
(***************************************************************************)
\* mission_tables.MissionInfo; required_world holds the connect_to of each
\* connection, all within the one campaign of the table.
MissionInfo(mission, required_world, category, number, or_requirements) ==
    [mission |-> mission, required_world |-> required_world, category |-> category,
     number |-> number, or_requirements |-> or_requirements]

\* MissionSlotData.legacy(mission_id, prev_missions, entry_rule), with the
\* category it is filed under.
LegacyMissionSlot(id, prev_missions, entry_rule, category) ==
    [mission_id |-> id, prev_missions |-> prev_missions, entry_rule |-> entry_rule,
     category |-> category]

\* [mission.mission.id for mission in mission_req_table[campaign].values()]
CampaignMissionIds(campaign_data) == [ i \in DOMAIN campaign_data |-> campaign_data[i].mission ]

\* list(required_campaign.values())[required_mission_id - 1], per connection
RequiredMissions(campaign_data, mission) ==
    [ i \in DOMAIN mission.required_world |-> campaign_data[mission.required_world[i]] ]

\* The rule of the required missions asking for all of them whatever
\* or_requirements says.
RequiredWorldRuleAll(campaign_data, mission) ==
    LET missions == [ i \in DOMAIN mission.required_world |->
                        RequiredMissions(campaign_data, mission)[i].mission ]
    IN CountMissionsRuleData(missions, Len(missions))

\* if len(mission.required_world) > 0: the rule over the required missions.
RequiredWorldRule(campaign_data, mission) ==
    LET missions == [ i \in DOMAIN mission.required_world |->
                        RequiredMissions(campaign_data, mission)[i].mission ]
        amount == IF mission.or_requirements THEN 1 ELSE Len(missions)
    IN CountMissionsRuleData(missions, amount)

\* The sub_rules list of one mission.
LegacySubRules(campaign_data, mission) ==
    (IF mission.number # 0
        THEN << CountMissionsRuleData(CampaignMissionIds(campaign_data), mission.number) >>
        ELSE <<>>)
    \o (IF Len(mission.required_world) > 0
           THEN << RequiredWorldRule(campaign_data, mission) >>
           ELSE <<>>)

\* prev_missions: the required missions of the mission's own category.
PrevMissions(campaign_data, mission) ==
    LET same == SelectSeq(RequiredMissions(campaign_data, mission),
                          LAMBDA required_mission : required_mission.category = mission.category)
    IN [ i \in DOMAIN same |-> same[i].mission ]

\* The keys of `categories` in insertion order.
RECURSIVE CategoriesInOrder(_, _)
CategoriesInOrder(campaign_data, seen) ==
    IF campaign_data = <<>> THEN <<>>
    ELSE IF Head(campaign_data).category \in seen
        THEN CategoriesInOrder(Tail(campaign_data), seen)
        ELSE <<Head(campaign_data).category>>
             \o CategoriesInOrder(Tail(campaign_data), seen \cup {Head(campaign_data).category})

\* rolling_rule_id that is never incremented.
RollingRuleIdStuck(i) == 0

\* rolling_rule_id when the i-th mission of the table is parsed: it starts at
\* 0 and grows by one per mission.
RollingRuleId(i) == i - 1

\* SubRuleRuleData(rolling_rule_id, sub_rules, len(sub_rules)) as an object
\* that carries its id.
LegacyEntryRule(rule_id, sub_rules) ==
    [rule_id |-> rule_id, sub_rules |-> sub_rules, amount |-> Len(sub_rules)]

\* parse_mission_req_table on a table of one campaign: the campaign list; the
\* slots carry their entry rule.
parse_mission_req_table(campaign_data) ==
    LET mission_slots ==
            [ i \in DOMAIN campaign_data |->
                LegacyMissionSlot(campaign_data[i].mission,
                                  PrevMissions(campaign_data, campaign_data[i]),
                                  LegacyEntryRule(RollingRuleId(i),
                                                  LegacySubRules(campaign_data, campaign_data[i])),
                                  campaign_data[i].category) ]
        categories == CategoriesInOrder(campaign_data, {})
        layouts == [ k \in DOMAIN categories |->
                        [missions |-> << SelectSeq(mission_slots,
                                            LAMBDA slot : slot.category = categories[k]) >>] ]
    IN [campaigns |-> << [layouts |-> layouts] >>]

\* The slots of a parsed mission order in the order calc_available_nodes
\* visits them.
RECURSIVE LegacyLayoutSlots(_)
LegacyLayoutSlots(layouts) ==
    IF layouts = <<>> THEN <<>>
    ELSE FlattenColumns(Head(layouts).missions) \o LegacyLayoutSlots(Tail(layouts))

RECURSIVE LegacySlots(_)
LegacySlots(campaigns) ==
    IF campaigns = <<>> THEN <<>>
    ELSE LegacyLayoutSlots(Head(campaigns).layouts) \o LegacySlots(Tail(campaigns))

\* is_accessible of a rule object: the cache and the in-progress list are
\* keyed by the rule's id, the children are the object's own.
LegacyRuleIsAccessible(rule, beaten_missions, accessible_rules) ==
    EntryRuleIsAccessible(rule.rule_id :> SubRuleRuleData(rule.sub_rules, rule.amount),
                          beaten_missions, <<>>, rule.rule_id, accessible_rules)

\* The missions loop over the slots of the parsed order, the accessible-rule
\* cache passed from one evaluation to the next.
RECURSIVE LegacyMissionsLoop(_, _, _, _)
LegacyMissionsLoop(slots, i, beaten_missions, st) ==
    IF i > Len(slots) THEN st
    ELSE LET r == LegacyRuleIsAccessible(slots[i].entry_rule, beaten_missions, st.accessible_rules)
         IN LegacyMissionsLoop(slots, i + 1, beaten_missions,
                [available_missions |->
                     IF r.ok THEN st.available_missions \cup {slots[i].mission_id}
                             ELSE st.available_missions,
                 accessible_rules |-> r.accessible_rules])

\* calc_available_nodes on a parsed mission order: its campaigns and layouts
\* have no requirement, every mission is asked for its entry rule.
calc_legacy_nodes(order, checked) ==
    LET slots == LegacySlots(order.campaigns)
        beaten_missions == { slots[i].mission_id : i \in { k \in DOMAIN slots :
                                    is_mission_completed(checked, slots[k].mission_id) } }
        st == LegacyMissionsLoop(slots, 1, beaten_missions,
                                 [available_missions |-> {}, accessible_rules |-> {}])
    IN [beaten_missions |-> beaten_missions,
        available_missions |-> st.available_missions,
        accessible_rules |-> st.accessible_rules]

(***************************************************************************)
(* The session: locations get checked, items arrive, the queries run       *)
(***************************************************************************)
\* Most copies of RULE_ITEM a session receives.
MaxRuleItems == 1

\* The locations the server knows of missions 10 and 11: both victory
\* locations and one bonus objective of mission 10.
server_locations ==
    { get_location_id(10, 0), get_location_id(10, 1), get_location_id(11, 0) }

NoRequirement == SubRuleRuleData(<<>>, 0)

IdleCodec ==
    /\ mission_id = 1
    /\ objective_id = 0
    /\ loc = None
    /\ decoded = NoPair
    /\ reencoded = None

\* SC2Context.__init__
IdleItems ==
    /\ slot_data_version = 2
    /\ generic_upgrade_missions = 0
    /\ item_pool = {}
    /\ event_list = <<>>
    /\ delivered = 0
    /\ tech = NoTech
    /\ connections = 0

IdleNodes ==
    /\ rule_table = [r \in RuleIds |-> NoRequirement]
    /\ checked_locations = {}
    /\ items_received = <<>>
    /\ available = <<>>

\* SC2Context.__init__ and the defaults of the slot data
IdleKerrigan ==
    /\ kerrigan_levels_per_mission_completed = 0
    /\ kerrigan_levels_per_mission_completed_cap = -1
    /\ kerrigan_total_level_cap = -1
    /\ kerrigan_primal_status = "vanilla"
    /\ kerrigan_level = None

IdleLegacy ==
    /\ mission_req_table = <<>>
    /\ legacy_mission_order = NoResult
    /\ legacy_available = NoResult

\* Calls of play_mission in one session.
MaxLaunches == 2

\* launching: Union[bool, int] = False; as an int, False is 0.
NotLaunching == 0

\* What the campaign panel shows: a label, and under the label "missions" the
\* nodes the buttons were drawn from.
MissionTable(label, nodes) == [label |-> label, nodes |-> nodes]

\* The class attributes of SC2Manager; the panel is empty.
IdleGui ==
    /\ launching = NotLaunching
    /\ refresh_from_launching = TRUE
    /\ first_check = TRUE
    /\ last_checked_locations = {}
    /\ last_data_out_of_date = FALSE
    /\ data_out_of_date = FALSE
    /\ mission_table = MissionTable("", <<>>)
    /\ refreshed = FALSE

\* ArchipelagoBot.__init__
IdleBot ==
    /\ bot_pc = "idle"
    /\ last_received_update = 0
    /\ sent = <<>>
    /\ snapshot = NoResult

IdleClient == IdleKerrigan /\ IdleLegacy /\ IdleGui /\ IdleBot

\* sc2_run_task: Optional[asyncio.Task] = None
NoTask == <<>>

\* SC2Context.__init__
IdleLaunch ==
    /\ missions_unlocked = FALSE
    /\ sc2_run_task = NoTask
    /\ orphan_tasks = {}
    /\ play_calls = 0
    /\ play_result = NoResult

IdleCmd == received_output = NoResult

TRADE_DATASTORAGE_LOCK == "_lock"

(***************************************************************************)
(* Void Trade: the lock of the team's storage                              *)
(***************************************************************************)
\* The clients of one team that trade.
Clients == {1, 2}

TRADE_LOCK_TIME == 5000
ReplyTimeoutSeconds == 5

\* Time is counted in ticks of TickMs milliseconds.
TickMs == 2500
LockTicks == TRADE_LOCK_TIME \div TickMs
TimeoutTicks == (ReplyTimeoutSeconds * 1000) \div TickMs

\* asyncio.sleep(delay) sleeps delay seconds.
SleepTicks(delay) == (delay * 1000) \div TickMs

\* Calls of trade_send and trade_receive by the clients in all.
MaxTrades == 2

\* Ticks that may pass in all while a message is on its way, as many as the
\* wait for a reply allows for; the rest of the time the network delivers
\* within the tick.
MaxSlow == TimeoutTicks

\* Ages are counted up to AgeCap ticks: an older stamp is as old as that.
AgeCap == LockTicks + MaxSlow + 1

\* The values random.randrange(100, 500) takes in the model.
Jitters == {100, 400}

\* A lock value is the millisecond clock of the client that wrote it, kept
\* as the writer and the age of the stamp; 0 is decades old.
Stamp(by, age) == [by |-> by, age |-> age]
ZeroStamp == Stamp(0, AgeCap)
NoStamp == Stamp(0, 0)
NoReply == <<>>
NoHold == -1

\* trade_lock_start is None, or the time of the game at the first pass.
NoStart == "None"
Started == "last_bot.time"

Older(age, d) == IF age + d < AgeCap THEN age + d ELSE AgeCap
AgedStamp(stamp, d) == IF stamp.by = 0 THEN stamp ELSE Stamp(stamp.by, Older(stamp.age, d))

\* lock - reply["original_value"][TRADE_DATASTORAGE_LOCK], in milliseconds
StampDifference(lock, original) == (original.age - lock.age) * TickMs

\* SC2Context.__init__, in a running game
IdleTrader ==
    [pc |-> "idle", calls |-> 0, keep_trying |-> FALSE, attempts |-> 0, returned |-> "",
     trade_lock_wait |-> 0, trade_lock_start |-> NoStart, timer |-> 0, lock |-> NoStamp,
     trade_latest_reply |-> NoReply, trade_reply_event |-> FALSE, running |-> TRUE,
     past_limit |-> FALSE, hold |-> NoHold]

IdleLock ==
    /\ lock_entry = ZeroStamp
    /\ trade_clients = [c \in Clients |-> IdleTrader]
    /\ trade_network = [sets |-> {}, slow |-> 0]


\* The team's key after the "default" Set of the Connected handler.
IdleStorage ==
    /\ trade_storage = (TRADE_DATASTORAGE_LOCK :> 0)
    /\ trade_result = NoResult

MAX_BONUS == 28

\* The fields of a new bot and the Void Trade fields of the context.
IdleBotFields ==
    /\ step_pc = "idle"
    /\ game_state = 0
    /\ setup_done = FALSE
    /\ game_running = FALSE
    /\ can_read_game = FALSE
    /\ mission_completed = FALSE
    /\ boni = [x \in 0..(MAX_BONUS - 1) |-> FALSE]
    /\ finished_game = FALSE
    /\ location_checks = EmptyBag
    /\ last_trade_cargo = {}
    /\ last_supply_used = 0
    /\ trade_underway = FALSE
    /\ trade_response = NoResult
    /\ trade_tasks = <<>>
    /\ trade_sent = <<>>
    /\ chat = <<>>

\* SC2Context.__init__
IdleStep == IdleBotFields /\ final_mission_ids = {ALL_IN_id}

IdleSession == IdleLaunch /\ IdleCmd /\ IdleStorage /\ IdleLock /\ IdleStep

InitNodes ==
    /\ IdleSession
    /\ IdleCodec
    /\ IdleClient
    /\ IdleItems
    /\ \E shape \in [FreeRuleIds -> DOMAIN RuleShapes(0)] :
            rule_table = [r \in RuleIds |->
                            IF r \in FreeRuleIds THEN RuleShapes(r)[shape[r]]
                                                 ELSE NoRequirement]
    /\ checked_locations = {}
    /\ items_received = <<>>
    /\ available = <<>>

\* A location check reaches the client (RoomUpdate / Connected).
CheckLocation ==
    /\ \E l \in server_locations \ checked_locations :
            checked_locations' = checked_locations \cup {l}
    /\ UNCHANGED <<rule_table, items_received, available>>

\* ReceivedItems appends to ctx.items_received.
ReceiveRuleItem ==
    /\ Len(items_received) < MaxRuleItems
    /\ items_received' = Append(items_received, NetworkItem(RULE_ITEM, 0, 0, 0))
    /\ UNCHANGED <<rule_table, checked_locations, available>>

\* A caller runs calc_available_nodes(ctx) and keeps the result.
CalcAvailableNodes ==
    /\ available' = <<calc_available_nodes(Ctx)>>
    /\ UNCHANGED ctx_vars

NextNodes ==
    \/ (CheckLocation /\ UNCHANGED <<codec_vars, session_vars, item_vars, client_vars>>)
    \/ (ReceiveRuleItem /\ UNCHANGED <<codec_vars, session_vars, item_vars, client_vars>>)
    \/ (CalcAvailableNodes /\ UNCHANGED <<codec_vars, session_vars, item_vars, client_vars>>)

SpecNodes == InitNodes /\ [][NextNodes]_vars

\* The caller of calc_available_nodes has used the result.
ReturnFromCalc ==
    /\ available # <<>>
    /\ available' = <<>>
    /\ UNCHANGED ctx_vars

\* calc_available_nodes and its caller run without yielding to the event
\* loop: checks and items arrive between the computations.
NextEval ==
    \/ (available = <<>> /\ CheckLocation /\ UNCHANGED <<codec_vars, session_vars, item_vars, client_vars>>)
    \/ (available = <<>> /\ ReceiveRuleItem /\ UNCHANGED <<codec_vars, session_vars, item_vars, client_vars>>)
    \/ (available = <<>> /\ CalcAvailableNodes /\ UNCHANGED <<codec_vars, session_vars, item_vars, client_vars>>)
    \/ (ReturnFromCalc /\ UNCHANGED <<codec_vars, session_vars, item_vars, client_vars>>)

SpecEval == InitNodes /\ [][NextEval]_vars

\* The missions of the legacy campaign, in the order of the slot data.
LegacyMissions == <<10, 11>>

LegacyRequiredWorlds == { <<>>, <<1>>, <<2>>, <<1, 2>> }

LegacyInfos(mission, categories) ==
    { MissionInfo(mission, required_world, category, number, or_requirements) :
        required_world \in LegacyRequiredWorlds, category \in categories,
        number \in 0..Len(LegacyMissions), or_requirements \in BOOLEAN }

InitLegacy ==
    /\ IdleSession
    /\ IdleCodec
    /\ IdleNodes
    /\ IdleItems
    /\ IdleKerrigan
    /\ mission_req_table \in { <<first, second>> :
                                  first \in LegacyInfos(LegacyMissions[1], {"_1"}),
                                  second \in LegacyInfos(LegacyMissions[2], {"_1", "_2"}) }
    /\ legacy_mission_order = NoResult
    /\ legacy_available = NoResult
    /\ IdleGui
    /\ IdleBot

\* Connected with a slot data version below 4.
ParseMissionReqTable ==
    /\ slot_data_version < 4
    /\ legacy_mission_order = NoResult
    /\ legacy_mission_order' = << parse_mission_req_table(mission_req_table) >>
    /\ UNCHANGED <<mission_req_table, legacy_available>>
    /\ UNCHANGED <<codec_vars, session_vars, node_vars, item_vars, kerrigan_vars, gui_vars, bot_vars>>

\* A caller asks which missions of the parsed order are available.
CalcLegacyNodes ==
    /\ legacy_mission_order # NoResult
    /\ legacy_available' = << calc_legacy_nodes(legacy_mission_order[1], checked_locations) >>
    /\ UNCHANGED <<mission_req_table, legacy_mission_order>>
    /\ UNCHANGED <<codec_vars, session_vars, node_vars, item_vars, kerrigan_vars, gui_vars, bot_vars>>

NextLegacy ==
    \/ ParseMissionReqTable
    \/ (CheckLocation /\ UNCHANGED <<codec_vars, session_vars, item_vars, client_vars>>)
    \/ CalcLegacyNodes

SpecLegacy == InitLegacy /\ [][NextLegacy]_vars

(***************************************************************************)
(* Claims on the accessibility of campaigns, layouts and missions          *)
(***************************************************************************)
\* One entry rule evaluated on its own: empty cache, empty in-progress list.
EvalEntryRule(ctx, rule_id) ==
    EntryRuleIsAccessible(ctx.rule_table, beaten_missions_of(ctx), received_items_of(ctx),
                          rule_id, {})

\* The rules that are accessible without support from a reference cycle: the
\* least set G in which a rule lies when `amount` of its children are
\* accessible count rules or references to rules of G.
GroundedStep(ctx, G) ==
    { r \in RuleIds :
        LET rule == ctx.rule_table[r]
            holds(ref) == IF ref.kind = "sub" THEN ref.rule_id \in G
                          ELSE CountRuleIsAccessible(ref, beaten_missions_of(ctx),
                                                     received_items_of(ctx))
        IN Cardinality({ i \in DOMAIN rule.sub_rules : holds(rule.sub_rules[i]) }) >= rule.amount }

RECURSIVE GroundedIter(_, _, _)
GroundedIter(ctx, G, n) == IF n = 0 THEN G ELSE GroundedIter(ctx, GroundedStep(ctx, G), n - 1)

GroundedRules(ctx) == GroundedIter(ctx, {}, Cardinality(RuleIds))

\* C2: evaluating an entry rule whose graph contains back-references always
\* returns (the nesting never exceeds the number of rules), and a rule is
\* reported accessible only if it is accessible without the cyclic edges; a
\* rule A whose only child is B whose only child is A is never accessible.
CycleSafe ==
    LET result == calc_available_nodes(Ctx)
        grounded == GroundedRules(Ctx)
        eval == [r \in RuleIds |-> EvalEntryRule(Ctx, r)]
    IN
    /\ ~result.diverged
    /\ result.accessible_rules \subseteq grounded
    /\ \A r \in RuleIds :
        /\ ~eval[r].diverged
        /\ eval[r].ok => r \in grounded
    /\ \A a, b \in RuleIds :
            (/\ rule_table[a] = SubRuleRuleData(<<SubRule(b)>>, 1)
             /\ rule_table[b] = SubRuleRuleData(<<SubRule(a)>>, 1))
            => ~eval[a].ok

\* The campaign's rule and the layout's rule refer to each other only, and
\* calc_available_nodes has returned with no campaign available although
\* both missions are beaten.
CycleSafeWitness ==
    /\ rule_table[0] = SubRuleRuleData(<<SubRule(1)>>, 1)
    /\ rule_table[1] = SubRuleRuleData(<<SubRule(0)>>, 1)
    /\ beaten_missions_of(Ctx) = {10, 11}
    /\ available # <<>>
    /\ available[1] = calc_available_nodes(Ctx)
    /\ available[1].available_campaigns = <<>>

\* C23: an evaluation of an entry rule, entered with any in-progress list of
\* rules that can be referenced and with the empty cache, and entered with
\* the empty list and the cache a computation has left, returns with
\* the in-progress list it was entered with, accessible or not; the
\* evaluations calc_available_nodes starts are entered with the empty list
\* and leave it empty, and its cache holds only rules that are accessible in
\* the state it was computed from.
InProgressRestored ==
    available # <<>> =>
        /\ \A r \in RuleIds : \A S \in SUBSET FreeRuleIds :
              LET result == SubRuleIsAccessible(r, beaten_missions_of(Ctx), received_items_of(Ctx),
                                                rule_table, {}, S, Cardinality(RuleIds) + 1)
              IN /\ result.seen_rules = S
                 /\ ~result.diverged
        /\ \A r \in RuleIds : \A cache \in {{}, available[1].accessible_rules} :
              EntryRuleIsAccessible(rule_table, beaten_missions_of(Ctx), received_items_of(Ctx),
                                    r, cache).seen_rules = {}
        /\ available[1].accessible_rules \subseteq { r \in RuleIds : EvalEntryRule(Ctx, r).ok }

\* The campaign's rule needs the layout's rule and a received item, the
\* layout's rule refers back to the campaign's: the evaluation of the
\* campaign's rule re-enters it, fails early on the missing item, and the
\* computation has returned.
InProgressRestoredWitness ==
    /\ rule_table[0] = SubRuleRuleData(<<CountItemsRule({RULE_ITEM}, 1), SubRule(1)>>, 2)
    /\ rule_table[1] = SubRuleRuleData(<<SubRule(0)>>, 1)
    /\ items_received = <<>>
    /\ available # <<>>
    /\ available[1] = calc_available_nodes(Ctx)
    /\ ~EvalEntryRule(Ctx, 0).ok
    /\ EvalEntryRule(Ctx, 0).seen_rules = {}

\* The <<campaign index, layout index>> pairs of a result.
AvailableLayoutsOf(result) ==
    UNION { { <<c, l>> : l \in SeqToSet(result.available_layouts[c]) } :
            c \in DOMAIN result.available_layouts }

\* C3: checked_locations and items_received only grow, and a campaign, a
\* layout or a mission that an earlier calc_available_nodes reported
\* accessible is reported accessible in every later state.
AccessibilityMonotone ==
    available # <<>> =>
        LET before == available[1]
            after == calc_available_nodes(Ctx)
        IN /\ SeqToSet(before.available_campaigns) \subseteq SeqToSet(after.available_campaigns)
           /\ AvailableLayoutsOf(before) \subseteq AvailableLayoutsOf(after)
           /\ SeqToSet(before.available_missions) \subseteq SeqToSet(after.available_missions)

HasBackReference ==
    \E a, b \in FreeRuleIds :
        /\ \E i \in DOMAIN rule_table[a].sub_rules : rule_table[a].sub_rules[i] = SubRule(b)
        /\ \E i \in DOMAIN rule_table[b].sub_rules : rule_table[b].sub_rules[i] = SubRule(a)

\* In a rule graph with a back-reference, mission 11 was reported available
\* before the last location and the item arrived, and still is.
AccessibilityMonotoneWitness ==
    /\ HasBackReference
    /\ available # <<>>
    /\ 11 \in SeqToSet(available[1].available_missions)
    /\ checked_locations = server_locations
    /\ Len(items_received) = MaxRuleItems
    /\ available[1] # calc_available_nodes(Ctx)
    /\ 11 \in SeqToSet(calc_available_nodes(Ctx).available_missions)

\* C4: a mission is available only if its own rule, its layout's rule and its
\* campaign's rule are all accessible in the same snapshot; a layout is
\* available only in an available campaign; the empty slot is never
\* available.
HierarchyIsConjunctive ==
    LET result == calc_available_nodes(Ctx)
        accessible == [r \in RuleIds |-> EvalEntryRule(Ctx, r).ok]
    IN
    /\ \A m \in SeqToSet(result.available_missions) :
        /\ m # EMPTY_SLOT
        /\ m \in DOMAIN mission_id_to_entry_rules
        /\ accessible[mission_id_to_entry_rules[m].mission_rule]
        /\ accessible[mission_id_to_entry_rules[m].layout_rule]
        /\ accessible[mission_id_to_entry_rules[m].campaign_rule]
    /\ \A cl \in AvailableLayoutsOf(result) :
        /\ cl[1] \in SeqToSet(result.available_campaigns)
        /\ accessible[custom_mission_order[cl[1] + 1].layouts[cl[2] + 1].entry_rule]
    /\ \A c \in SeqToSet(result.available_campaigns) :
            accessible[custom_mission_order[c + 1].entry_rule]
    /\ available # <<>> => EMPTY_SLOT \notin SeqToSet(available[1].available_missions)

\* The rules of missions 10 and 11 and of the layout are accessible, the
\* campaign's rule is not, and calc_available_nodes has reported no layout
\* and no mission.
HierarchyIsConjunctiveWitness ==
    /\ EvalEntryRule(Ctx, mission_id_to_entry_rules[10].mission_rule).ok
    /\ EvalEntryRule(Ctx, mission_id_to_entry_rules[11].mission_rule).ok
    /\ EvalEntryRule(Ctx, mission_id_to_entry_rules[11].layout_rule).ok
    /\ ~EvalEntryRule(Ctx, mission_id_to_entry_rules[11].campaign_rule).ok
    /\ available # <<>>
    /\ available[1] = calc_available_nodes(Ctx)
    /\ available[1].available_missions = <<>>
    /\ AvailableLayoutsOf(available[1]) = {}

\* The rules of the two-mission chain: campaign, layout and mission 10 have
\* no requirement, mission 11 requires mission 10 beaten.
MissionElevenNeedsTen ==
    rule_table = [r \in RuleIds |->
                    IF r = mission_id_to_entry_rules[11].mission_rule
                        THEN SubRuleRuleData(<<CountMissionsRuleData(<<10>>, 1)>>, 1)
                        ELSE NoRequirement]

\* C15: in the two-mission chain, mission 11 is available exactly in the
\* states where the victory location of mission 10 is checked: not before,
\* and from the first state after the check on, whatever else has happened.
ChainUnlocksOnVictory ==
    MissionElevenNeedsTen =>
        /\ is_mission_available(Ctx, 11) <=> get_location_id(10, 0) \in checked_locations
        /\ is_mission_available(Ctx, 10)

\* The victory location of mission 10 is the only thing that has happened,
\* and the query has found mission 11 available.
ChainUnlocksOnVictoryWitness ==
    /\ MissionElevenNeedsTen
    /\ checked_locations = {get_location_id(10, 0)}
    /\ items_received = <<>>
    /\ available # <<>>
    /\ SeqToSet(available[1].available_missions) = {10, 11}

(***************************************************************************)
(* Item table (item/item_tables.py, the part of it the model covers)       *)
(***************************************************************************)
WEAPON_ARMOR_UPGRADE_MAX_LEVEL == 5

ItemData(code, flag_word, number, race, quantity) ==
    [code |-> code, flag_word |-> flag_word, number |-> number, race |-> race,
     quantity |-> quantity]

\* get_full_item_list(): flag items have quantity 1, counters a quantity above
\* 1 and a bit offset, bundles a quantity above 1 and number -1, sums and the
\* deprecated Orbital Command quantity 0; flag_word -1 marks an item that has
\* no accumulator.
get_full_item_list ==
    ( "COMMAND_CENTER_SCANNER_SWEEP"             :> ItemData(1, 0, 0, "TERRAN", 1) ) @@
    ( "COMMAND_CENTER_MULE"                      :> ItemData(2, 0, 1, "TERRAN", 1) ) @@
    ( "COMMAND_CENTER_EXTRA_SUPPLIES"            :> ItemData(3, 0, 2, "TERRAN", 1) ) @@
    ( "PLANETARY_FORTRESS_ORBITAL_MODULE"        :> ItemData(4, 0, 3, "TERRAN", 1) ) @@
    ( "PROGRESSIVE_REGENERATIVE_BIO_STEEL"       :> ItemData(5, 1, 2, "TERRAN", 3) ) @@
    ( "PROGRESSIVE_ORBITAL_COMMAND"              :> ItemData(6, 1, 0, "TERRAN", 0) ) @@
    ( "STARTING_MINERALS"                        :> ItemData(7, 0, 0, "ANY", 0) ) @@
    ( "KERRIGAN_LEVELS_1"                        :> ItemData(8, 0, 1, "ZERG", 0) ) @@
    ( "KERRIGAN_LEVELS_2"                        :> ItemData(9, 0, 2, "ZERG", 0) ) @@
    ( "KERRIGAN_PRIMAL_FORM"                     :> ItemData(21, 1, 0, "ZERG", 1) ) @@
    ( "PROGRESSIVE_PROTOSS_GROUND_WEAPON"        :> ItemData(10, 0, 0, "PROTOSS", WEAPON_ARMOR_UPGRADE_MAX_LEVEL) ) @@
    ( "PROGRESSIVE_PROTOSS_GROUND_ARMOR"         :> ItemData(11, 0, 4, "PROTOSS", WEAPON_ARMOR_UPGRADE_MAX_LEVEL) ) @@
    ( "PROGRESSIVE_PROTOSS_SHIELDS"              :> ItemData(12, 0, 8, "PROTOSS", WEAPON_ARMOR_UPGRADE_MAX_LEVEL) ) @@
    ( "PROGRESSIVE_PROTOSS_AIR_WEAPON"           :> ItemData(13, 0, 12, "PROTOSS", WEAPON_ARMOR_UPGRADE_MAX_LEVEL) ) @@
    ( "PROGRESSIVE_PROTOSS_AIR_ARMOR"            :> ItemData(14, 0, 16, "PROTOSS", WEAPON_ARMOR_UPGRADE_MAX_LEVEL) ) @@
    ( "PROGRESSIVE_PROTOSS_GROUND_UPGRADE"       :> ItemData(15, 0, -1, "PROTOSS", WEAPON_ARMOR_UPGRADE_MAX_LEVEL) ) @@
    ( "PROGRESSIVE_PROTOSS_AIR_UPGRADE"          :> ItemData(16, 0, -1, "PROTOSS", WEAPON_ARMOR_UPGRADE_MAX_LEVEL) ) @@
    ( "PROGRESSIVE_PROTOSS_WEAPON_ARMOR_UPGRADE" :> ItemData(17, 0, -1, "PROTOSS", WEAPON_ARMOR_UPGRADE_MAX_LEVEL) ) @@
    ( "WAR_COUNCIL_UPGRADE"                      :> ItemData(19, 1, 0, "PROTOSS", 1) ) @@
    ( "NOTHING"                                  :> ItemData(20, -1, 0, "ANY", 1) )

item_code(name) == get_full_item_list[name].code

lookup_id_to_name ==
    [ code \in { get_full_item_list[name].code : name \in DOMAIN get_full_item_list } |->
        CHOOSE name \in DOMAIN get_full_item_list : get_full_item_list[name].code = code ]

upgrade_bundles ==
    ( "PROGRESSIVE_PROTOSS_GROUND_UPGRADE" :>
        << "PROGRESSIVE_PROTOSS_GROUND_WEAPON", "PROGRESSIVE_PROTOSS_GROUND_ARMOR",
           "PROGRESSIVE_PROTOSS_SHIELDS" >> ) @@
    ( "PROGRESSIVE_PROTOSS_AIR_UPGRADE" :>
        << "PROGRESSIVE_PROTOSS_AIR_WEAPON", "PROGRESSIVE_PROTOSS_AIR_ARMOR",
           "PROGRESSIVE_PROTOSS_SHIELDS" >> ) @@
    ( "PROGRESSIVE_PROTOSS_WEAPON_ARMOR_UPGRADE" :>
        << "PROGRESSIVE_PROTOSS_GROUND_WEAPON", "PROGRESSIVE_PROTOSS_GROUND_ARMOR",
           "PROGRESSIVE_PROTOSS_SHIELDS", "PROGRESSIVE_PROTOSS_AIR_WEAPON",
           "PROGRESSIVE_PROTOSS_AIR_ARMOR" >> )

\* upgrade_included_names[GenericUpgradeItems.option_bundle_all]
global_upgrades == << "PROGRESSIVE_PROTOSS_WEAPON_ARMOR_UPGRADE" >>

\* race_to_item_type[race]["Upgrade"].flag_word
upgrade_flag_word(race) == 0

\* The accumulators calculate_items starts from: one word per item type of
\* each race, all zero.
Races == {"ANY", "TERRAN", "ZERG", "PROTOSS"}
FlagWords(race) ==
    { get_full_item_list[name].flag_word :
        name \in { n \in DOMAIN get_full_item_list :
                     /\ get_full_item_list[n].race = race
                     /\ get_full_item_list[n].flag_word >= 0 } }

empty_accumulators == [race \in Races |-> [word \in FlagWords(race) |-> 0]]

RECURSIVE Pow2(_)
Pow2(n) == IF n = 0 THEN 1 ELSE 2 * Pow2(n - 1)

\* x << n, x | (1 << n), (x >> n) % m on non-negative integers.
ShiftLeft(x, n) == x * Pow2(n)
BitIsSet(x, n) == (x \div Pow2(n)) % 2 = 1
OrBit(x, n) == IF BitIsSet(x, n) THEN x ELSE x + Pow2(n)
Field(x, n, m) == (x \div Pow2(n)) % m

AddTo(accumulators, race, word, value) ==
    [accumulators EXCEPT ![race][word] = @ + value]

minerals_per_item == 15

(***************************************************************************)
(* calculate_items                                                         *)
(***************************************************************************)
CompatItemHolder(name, quantity) == [name |-> name, quantity |-> quantity]

\* The entries of the two compatibility sets that lie in the item table.
API2_TO_API3_COMPAT_ITEMS ==
    { CompatItemHolder("PROGRESSIVE_PROTOSS_SHIELDS", 3),
      CompatItemHolder("PROGRESSIVE_PROTOSS_WEAPON_ARMOR_UPGRADE", 3) }

API3_TO_API4_COMPAT_ITEMS ==
    { CompatItemHolder("WAR_COUNCIL_UPGRADE", 1) }

\* quantity * [network_item]
RECURSIVE Repeat(_, _)
Repeat(x, n) == IF n <= 0 THEN <<>> ELSE <<x>> \o Repeat(x, n - 1)

\* One copy whatever the quantity.
compat_item_to_network_items_once(compat_item) ==
    <<NetworkItem(item_code(compat_item.name), 0, 0, 0)>>

compat_item_to_network_items(compat_item) ==
    Repeat(NetworkItem(item_code(compat_item.name), 0, 0, 0), compat_item.quantity)

\* items.extend(...) for each holder, in the iteration order of the set.
RECURSIVE ExtendWithCompat(_, _)
ExtendWithCompat(items, holders) ==
    IF holders = <<>> THEN items
    ELSE ExtendWithCompat(items \o compat_item_to_network_items(Head(holders)), Tail(holders))

\* The orders in which a set may be iterated.
Orderings(S) ==
    { order \in [1..Cardinality(S) -> S] : \A x \in S : \E i \in DOMAIN order : order[i] = x }

ItemsWithCompatPrepended(items_list, version, order2, order3) ==
    ExtendWithCompat(
        ExtendWithCompat(<<>>, IF version < 3 THEN order2 ELSE <<>>),
        IF version < 4 THEN order3 ELSE <<>>) \o items_list

\* The list calculate_items iterates: a copy of ctx.items_received extended
\* by the implied items of the older slot data versions.
ItemsWithCompat(items_list, version, order2, order3) ==
    ExtendWithCompat(
        ExtendWithCompat(items_list, IF version < 3 THEN order2 ELSE <<>>),
        IF version < 4 THEN order3 ELSE <<>>)

get_bundle_upgrade_member_numbers(bundled_item) ==
    LET upgrade_elements ==
            IF bundled_item \in {"PROGRESSIVE_PROTOSS_GROUND_UPGRADE", "PROGRESSIVE_PROTOSS_AIR_UPGRADE"}
                THEN SelectSeq(upgrade_bundles[bundled_item],
                               LAMBDA item_name : item_name # "PROGRESSIVE_PROTOSS_SHIELDS")
                ELSE upgrade_bundles[bundled_item]
    IN [ i \in DOMAIN upgrade_elements |-> get_full_item_list[upgrade_elements[i]].number ]

\* accumulators[race][flaggroup] += value << bundled_number, for each member.
RECURSIVE AddBundle(_, _, _, _, _)
AddBundle(accumulators, race, flaggroup, numbers, value) ==
    IF numbers = <<>> THEN accumulators
    ELSE AddBundle(AddTo(accumulators, race, flaggroup, ShiftLeft(value, Head(numbers))),
                   race, flaggroup, Tail(numbers), value)

\* The locals of calculate_items that the item loop updates.
FoldState(accumulators, orbital_command_count, shields_from_ground_upgrade, shields_from_air_upgrade) ==
    [accumulators |-> accumulators,
     orbital_command_count |-> orbital_command_count,
     shields_from_ground_upgrade |-> shields_from_ground_upgrade,
     shields_from_air_upgrade |-> shields_from_air_upgrade]

\* exists multiple times: a counter adds one tier at its offset, a bundle one
\* tier to each member.
AddCopy(st, name, item_data) ==
    IF item_data.number >= 0
        THEN [st EXCEPT !.accumulators =
                AddTo(@, item_data.race, item_data.flag_word, ShiftLeft(1, item_data.number))]
        ELSE [st EXCEPT
                !.shields_from_ground_upgrade =
                    IF name = "PROGRESSIVE_PROTOSS_GROUND_UPGRADE" THEN @ + 1 ELSE @,
                !.shields_from_air_upgrade =
                    IF name = "PROGRESSIVE_PROTOSS_AIR_UPGRADE" THEN @ + 1 ELSE @,
                !.accumulators =
                    AddBundle(@, item_data.race, item_data.flag_word,
                              get_bundle_upgrade_member_numbers(name), 1)]

\* Regen bio-steel nerf with API3 - undo for older games.
BioSteelShim(st, name, item_data, version) ==
    IF version < 3 /\ name = "PROGRESSIVE_REGENERATIVE_BIO_STEEL"
          /\ Field(st.accumulators[item_data.race][item_data.flag_word], item_data.number, 4) = 2
        THEN [st EXCEPT !.accumulators =
                AddTo(@, item_data.race, item_data.flag_word, ShiftLeft(1, item_data.number))]
        ELSE st

\* The sum branch with = in place of +=.
AddSumAssign(st, name, item_data, config) ==
    IF name = "PROGRESSIVE_ORBITAL_COMMAND"
        THEN [st EXCEPT !.orbital_command_count = @ + 1]
    ELSE IF name = "STARTING_MINERALS"
        THEN [st EXCEPT !.accumulators[item_data.race][item_data.flag_word] =
                config.minerals_per_item]
        ELSE [st EXCEPT !.accumulators[item_data.race][item_data.flag_word] =
                item_data.number]

\* The sum branch.
AddSum(st, name, item_data, config) ==
    IF name = "PROGRESSIVE_ORBITAL_COMMAND"
        THEN [st EXCEPT !.orbital_command_count = @ + 1]
    ELSE IF name = "STARTING_MINERALS"
        THEN [st EXCEPT !.accumulators =
                AddTo(@, item_data.race, item_data.flag_word, config.minerals_per_item)]
        ELSE [st EXCEPT !.accumulators =
                AddTo(@, item_data.race, item_data.flag_word, item_data.number)]

\* One iteration of `for network_item in items`.
FoldItem(st, network_item, version, config) ==
    LET name == lookup_id_to_name[network_item.item]
        item_data == get_full_item_list[name]
    IN IF item_data.flag_word < 0 THEN st
       ELSE IF item_data.quantity = 1
           THEN [st EXCEPT !.accumulators[item_data.race][item_data.flag_word] =
                               OrBit(@, item_data.number)]
       ELSE IF item_data.quantity > 1
           THEN BioSteelShim(AddCopy(st, name, item_data), name, item_data, version)
       ELSE AddSum(st, name, item_data, config)

RECURSIVE FoldItems(_, _, _, _)
FoldItems(st, items, version, config) ==
    IF items = <<>> THEN st
    ELSE FoldItems(FoldItem(st, Head(items), version, config), Tail(items), version, config)

Max(a, b) == IF a >= b THEN a ELSE b
Min(a, b) == IF a <= b THEN a ELSE b

\* The shield level as the sum of the two bundle counts.
ShieldsFromBundlesSum(st) ==
    LET shield_upgrade_level == st.shields_from_ground_upgrade + st.shields_from_air_upgrade
        shield_upgrade_item == get_full_item_list["PROGRESSIVE_PROTOSS_SHIELDS"]
    IN AddTo(st.accumulators, shield_upgrade_item.race, shield_upgrade_item.flag_word,
             ShiftLeft(shield_upgrade_level, shield_upgrade_item.number))

\* Fix Shields from generic upgrades by unit class (Maximum of ground/air
\* upgrades): one tier per level.
ShieldsFromBundles(st) ==
    LET shield_upgrade_level == Max(st.shields_from_ground_upgrade, st.shields_from_air_upgrade)
        shield_upgrade_item == get_full_item_list["PROGRESSIVE_PROTOSS_SHIELDS"]
    IN AddTo(st.accumulators, shield_upgrade_item.race, shield_upgrade_item.flag_word,
             ShiftLeft(shield_upgrade_level, shield_upgrade_item.number))

orbital_command_replacement_items ==
    << "COMMAND_CENTER_SCANNER_SWEEP", "COMMAND_CENTER_MULE",
       "COMMAND_CENTER_EXTRA_SUPPLIES", "PLANETARY_FORTRESS_ORBITAL_MODULE" >>

replacement_item_ids ==
    [ i \in DOMAIN orbital_command_replacement_items |->
        item_code(orbital_command_replacement_items[i]) ]

\* `x in replacement_item_ids` for an element x of `items`: x is a
\* NetworkItem, a named tuple, the ids are ints, and Python's == between the
\* two is False whatever x.item is.
NetworkItemInIds(network_item, ids) ==
    \E i \in DOMAIN ids : FALSE /\ network_item.item = ids[i]

\* sum(item_id in replacement_item_ids for item_id in items) > 0
ReplacementPresent(items) ==
    Cardinality({ i \in DOMAIN items : NetworkItemInIds(items[i], replacement_item_ids) }) > 0

\* One tier per copy of the deprecated item.
OrbitalCommandHandlingPerCopy(accumulators, orbital_command_count, items) ==
    LET scanner_sweep_data == get_full_item_list["COMMAND_CENTER_SCANNER_SWEEP"]
        mule_data == get_full_item_list["COMMAND_CENTER_MULE"]
        planetary_orbital_module_data == get_full_item_list["PLANETARY_FORTRESS_ORBITAL_MODULE"]
    IN [accumulators |->
            AddTo(accumulators, "TERRAN", scanner_sweep_data.flag_word,
                  IF orbital_command_count = 0 THEN 0
                  ELSE ShiftLeft(1, scanner_sweep_data.number) + ShiftLeft(1, mule_data.number)
                       + ShiftLeft(orbital_command_count - 1,
                                   planetary_orbital_module_data.number)),
        warned |-> FALSE]

\* Deprecated Orbital Command handling: [accumulators, warned].
OrbitalCommandHandling(accumulators, orbital_command_count, items) ==
    IF orbital_command_count > 0
        THEN IF ReplacementPresent(items)
            THEN [accumulators |-> accumulators, warned |-> TRUE]
            ELSE LET scanner_sweep_data == get_full_item_list["COMMAND_CENTER_SCANNER_SWEEP"]
                     mule_data == get_full_item_list["COMMAND_CENTER_MULE"]
                     planetary_orbital_module_data ==
                         get_full_item_list["PLANETARY_FORTRESS_ORBITAL_MODULE"]
                     l1 == AddTo(AddTo(accumulators, scanner_sweep_data.race,
                                       scanner_sweep_data.flag_word,
                                       ShiftLeft(1, scanner_sweep_data.number)),
                                 mule_data.race, mule_data.flag_word,
                                 ShiftLeft(1, mule_data.number))
                 IN [accumulators |->
                        IF orbital_command_count >= 2
                            THEN AddTo(l1, planetary_orbital_module_data.race,
                                       planetary_orbital_module_data.flag_word,
                                       ShiftLeft(1, planetary_orbital_module_data.number))
                            ELSE l1,
                     warned |-> FALSE]
        ELSE [accumulators |-> accumulators, warned |-> FALSE]

\* ctx.mission_id_to_location_ids (build_location_to_mission_mapping): the
\* objectives of every slot's mission that the server has a location for.
mission_id_to_location_ids ==
    [ m \in DOMAIN mission_id_to_entry_rules |->
        { decode_location(l)[2] : l \in { x \in server_locations : decode_location(x)[1] = m } } ]

\* sum(len(column) for campaign ... for layout ... for column ...)
RECURSIVE LayoutSlots(_)
LayoutSlots(layouts) ==
    IF layouts = <<>> THEN 0
    ELSE Len(FlattenColumns(Head(layouts).missions)) + LayoutSlots(Tail(layouts))

RECURSIVE CampaignSlots(_)
CampaignSlots(campaigns) ==
    IF campaigns = <<>> THEN 0
    ELSE LayoutSlots(Head(campaigns).layouts) + CampaignSlots(Tail(campaigns))

total_missions == CampaignSlots(custom_mission_order)

\* Upgrades from completed missions.
RECURSIVE AddGlobalUpgrades(_, _, _)
AddGlobalUpgrades(accumulators, upgrades, upgrade_count) ==
    IF upgrades = <<>> THEN accumulators
    ELSE LET race == get_full_item_list[Head(upgrades)].race
         IN AddGlobalUpgrades(
                AddBundle(accumulators, race, upgrade_flag_word(race),
                          get_bundle_upgrade_member_numbers(Head(upgrades)), upgrade_count),
                Tail(upgrades), upgrade_count)

MissionUpgrades(accumulators, config, checked) ==
    IF config.generic_upgrade_missions > 0
        THEN LET num_missions == (config.generic_upgrade_missions * total_missions) \div 100
                 completed == Cardinality({ m \in DOMAIN mission_id_to_location_ids :
                                              is_mission_completed(checked, m) })
                 upgrade_count == IF num_missions > 0
                                     THEN Min(completed \div num_missions, WEAPON_ARMOR_UPGRADE_MAX_LEVEL)
                                     ELSE WEAPON_ARMOR_UPGRADE_MAX_LEVEL
             IN AddGlobalUpgrades(accumulators, global_upgrades, upgrade_count)
        ELSE accumulators

\* calculate_items on the list `items` it has built: the accumulators and
\* whether the warning was logged.
CalculateFromItems(items, version, config, checked) ==
    LET st == FoldItems(FoldState(empty_accumulators, 0, 0, 0), items, version, config)
        shields == IF st.shields_from_ground_upgrade > 0 \/ st.shields_from_air_upgrade > 0
                      THEN ShieldsFromBundles(st) ELSE st.accumulators
        orbital == OrbitalCommandHandling(shields, st.orbital_command_count, items)
    IN [accumulators |-> MissionUpgrades(orbital.accumulators, config, checked),
        warned |-> orbital.warned,
        items |-> items]

\* What calculate_items leaves in ctx.items_received: it works on a copy.
ItemsReceivedAfterNoCopy(items_list, version, order2, order3) ==
    ItemsWithCompat(items_list, version, order2, order3)

ItemsReceivedAfter(items_list, version, order2, order3) == items_list

calculate_items(items_list, version, config, checked, order2, order3) ==
    CalculateFromItems(ItemsWithCompat(items_list, version, order2, order3),
                       version, config, checked)

(***************************************************************************)
(* Kerrigan's level                                                        *)
(***************************************************************************)
\* ZergItemType.Level.flag_word
Level_flag_word == get_full_item_list["KERRIGAN_LEVELS_1"].flag_word

\* ZergItemType.Primal_Form.flag_word
Primal_Form_flag_word == get_full_item_list["KERRIGAN_PRIMAL_FORM"].flag_word

\* KerriganPrimalStatus
PrimalStatusOptions ==
    { "vanilla", "always_zerg", "always_human", "level_35", "half_completion", "item" }

\* kerrigan_primal(ctx, kerrigan_level) on a context with the given received
\* items and checked locations.
kerrigan_primal(status, items, checked, level) ==
    IF status = "always_zerg" THEN TRUE
    ELSE IF status = "always_human" THEN FALSE
    ELSE IF status = "level_35" THEN level >= 35
    ELSE IF status = "half_completion"
        THEN LET total == Cardinality(DOMAIN mission_id_to_location_ids)
                 completed == Cardinality({ m \in DOMAIN mission_id_to_location_ids :
                                              is_mission_completed(checked, m) })
             IN 2 * completed >= total
    ELSE IF status = "item"
        THEN \E i \in DOMAIN items : items[i].item = item_code("KERRIGAN_PRIMAL_FORM")
    ELSE FALSE

\* The chat messages of a tech update.
TerranMessage(current_items) ==
    [cmd |-> "GiveTerranTech", words |-> current_items["TERRAN"]]

ZergMessage(current_items, level, primal) ==
    [cmd |-> "GiveZergTech", kerrigan_level |-> level,
     kerrigan_primal_bot_value |-> IF primal THEN 1 ELSE 0,
     words |-> [ index \in DOMAIN current_items["ZERG"] \ {Level_flag_word, Primal_Form_flag_word} |->
                   current_items["ZERG"][index] ]]

ProtossMessage(current_items) ==
    [cmd |-> "GiveProtossTech", words |-> current_items["PROTOSS"]]

\* ArchipelagoBot.missions_beaten_count
missions_beaten_count(checked) ==
    Cardinality({ location \in checked : location % VICTORY_MODULO = 0 })

KerriganOptions(levels_per_mission_completed, levels_per_mission_completed_cap, total_level_cap) ==
    [kerrigan_levels_per_mission_completed |-> levels_per_mission_completed,
     kerrigan_levels_per_mission_completed_cap |-> levels_per_mission_completed_cap,
     kerrigan_total_level_cap |-> total_level_cap]

\* The level with the mission cap laid on the sum of item and mission levels.
get_kerrigan_level_capped_sum(ctx, items, missions_beaten) ==
    LET item_value == items["ZERG"][Level_flag_word]
        mission_value == missions_beaten * ctx.kerrigan_levels_per_mission_completed
        summed == IF ctx.kerrigan_levels_per_mission_completed_cap # -1
                     THEN Min(item_value + mission_value,
                              ctx.kerrigan_levels_per_mission_completed_cap)
                     ELSE item_value + mission_value
    IN IF ctx.kerrigan_total_level_cap # -1
           THEN Min(summed, ctx.kerrigan_total_level_cap)
           ELSE summed

get_kerrigan_level(ctx, items, missions_beaten) ==
    LET item_value == items["ZERG"][Level_flag_word]
        mission_value == missions_beaten * ctx.kerrigan_levels_per_mission_completed
        capped_mission_value == IF ctx.kerrigan_levels_per_mission_completed_cap # -1
                                   THEN Min(mission_value,
                                            ctx.kerrigan_levels_per_mission_completed_cap)
                                   ELSE mission_value
        total_value == item_value + capped_mission_value
    IN IF ctx.kerrigan_total_level_cap # -1
           THEN Min(total_value, ctx.kerrigan_total_level_cap)
           ELSE total_value

(***************************************************************************)
(* The session of the item accumulators: items arrive, the connection is   *)
(* lost and the items replayed, missions get completed, calculate_items    *)
(* runs                                                                    *)
(***************************************************************************)
\* Most item events of a session.
MaxItems == 2
\* The connections are counted up to this.
MaxConnections == 2

SlotDataVersions == 2..4
GenericUpgradeMissionsOptions == {0, 50}

\* The items the server sends in the modelled sessions.
ItemAlphabet ==
    { "COMMAND_CENTER_SCANNER_SWEEP", "PROGRESSIVE_REGENERATIVE_BIO_STEEL",
      "PROGRESSIVE_ORBITAL_COMMAND", "PROGRESSIVE_PROTOSS_GROUND_UPGRADE",
      "KERRIGAN_LEVELS_1", "KERRIGAN_LEVELS_2", "NOTHING" }

\* The items the server sends in the sessions that lose the connection.
ReplayAlphabet ==
    { "PROGRESSIVE_REGENERATIVE_BIO_STEEL", "PROGRESSIVE_ORBITAL_COMMAND",
      "PROGRESSIVE_PROTOSS_GROUND_UPGRADE" }

SlotConfig ==
    [generic_upgrade_missions |-> generic_upgrade_missions,
     minerals_per_item |-> minerals_per_item]

InitItems ==
    /\ IdleSession
    /\ IdleCodec
    /\ IdleClient
    /\ IdleNodes
    /\ slot_data_version \in SlotDataVersions
    /\ generic_upgrade_missions \in GenericUpgradeMissionsOptions
    /\ item_pool = ItemAlphabet
    /\ event_list = <<>>
    /\ delivered = 0
    /\ tech = NoTech
    /\ connections = 1

InitReplay ==
    /\ IdleSession
    /\ IdleCodec
    /\ IdleClient
    /\ IdleNodes
    /\ slot_data_version \in SlotDataVersions
    /\ generic_upgrade_missions \in GenericUpgradeMissionsOptions
    /\ item_pool = ReplayAlphabet
    /\ event_list = <<>>
    /\ delivered = 0
    /\ tech = NoTech
    /\ connections = 1

\* ReceivedItems with a new item: it follows the items delivered so far.
ReceiveItem ==
    /\ delivered = Len(event_list)
    /\ Len(event_list) < MaxItems
    /\ \E name \in item_pool :
        /\ event_list' = Append(event_list, name)
        /\ items_received' = Append(items_received, NetworkItem(item_code(name), 0, 0, 0))
    /\ delivered' = delivered + 1
    /\ UNCHANGED <<rule_table, checked_locations, available, slot_data_version,
                   generic_upgrade_missions, item_pool, tech, connections>>

\* The connection is lost and made again: ReceivedItems with index 0 empties
\* ctx.items_received.
Reconnect ==
    /\ delivered > 0
    /\ items_received' = <<>>
    /\ delivered' = 0
    /\ connections' = IF connections < MaxConnections THEN connections + 1 ELSE connections
    /\ UNCHANGED <<rule_table, checked_locations, available, slot_data_version,
                   generic_upgrade_missions, item_pool, event_list, tech>>

\* The server replays the next item of the slot.
ReplayItem ==
    /\ delivered < Len(event_list)
    /\ items_received' = Append(items_received,
                                NetworkItem(item_code(event_list[delivered + 1]), 0, 0, 0))
    /\ delivered' = delivered + 1
    /\ UNCHANGED <<rule_table, checked_locations, available, slot_data_version,
                   generic_upgrade_missions, item_pool, event_list, tech, connections>>

\* A caller runs calculate_items(ctx): tech holds what it returned, with what
\* it logged, the list it folded and the missions it counted as completed,
\* until the caller has used it.
CalculateItems ==
    /\ tech = NoTech
    /\ \E order2 \in Orderings(API2_TO_API3_COMPAT_ITEMS) :
       \E order3 \in Orderings(API3_TO_API4_COMPAT_ITEMS) :
        /\ tech' = << [ calculated |->
                            calculate_items(items_received, slot_data_version, SlotConfig,
                                            checked_locations, order2, order3),
                        completed |-> { m \in DOMAIN mission_id_to_location_ids :
                                          is_mission_completed(checked_locations, m) } ] >>
        /\ items_received' = ItemsReceivedAfter(items_received, slot_data_version, order2, order3)
    /\ UNCHANGED <<rule_table, checked_locations, available, slot_data_version,
                   generic_upgrade_missions, item_pool, event_list, delivered, connections>>

\* The caller has used the result; control goes back to the event loop.
ReturnToEventLoop ==
    /\ tech # NoTech
    /\ tech' = NoTech
    /\ UNCHANGED <<node_vars, slot_data_version, generic_upgrade_missions, item_pool,
                   event_list, delivered, connections>>

\* calculate_items and its caller run without yielding to the event loop:
\* the network handlers run while no result is in use.
NextItems ==
    \/ (tech = NoTech /\ ReceiveItem /\ UNCHANGED <<codec_vars, session_vars, client_vars>>)
    \/ (tech = NoTech /\ CheckLocation /\ UNCHANGED <<codec_vars, session_vars, item_vars, client_vars>>)
    \/ (CalculateItems /\ UNCHANGED <<codec_vars, session_vars, client_vars>>)
    \/ (ReturnToEventLoop /\ UNCHANGED <<codec_vars, session_vars, client_vars>>)

SpecItems == InitItems /\ [][NextItems]_vars

NextReplay ==
    \/ (tech = NoTech /\ ReceiveItem /\ UNCHANGED <<codec_vars, session_vars, client_vars>>)
    \/ (tech = NoTech /\ Reconnect /\ UNCHANGED <<codec_vars, session_vars, client_vars>>)
    \/ (tech = NoTech /\ ReplayItem /\ UNCHANGED <<codec_vars, session_vars, client_vars>>)
    \/ (tech = NoTech /\ CheckLocation /\ UNCHANGED <<codec_vars, session_vars, item_vars, client_vars>>)
    \/ (CalculateItems /\ UNCHANGED <<codec_vars, session_vars, client_vars>>)
    \/ (ReturnToEventLoop /\ UNCHANGED <<codec_vars, session_vars, client_vars>>)

SpecReplay == InitReplay /\ [][NextReplay]_vars

\* Most bundle items of a session of Protoss upgrades.
MaxBundles == 5

\* The items the server sends in the sessions of Protoss upgrade bundles.
BundleAlphabet ==
    { "PROGRESSIVE_PROTOSS_GROUND_UPGRADE", "PROGRESSIVE_PROTOSS_AIR_UPGRADE" }

InitShields ==
    /\ IdleSession
    /\ IdleCodec
    /\ IdleClient
    /\ IdleNodes
    /\ slot_data_version \in SlotDataVersions
    /\ generic_upgrade_missions \in GenericUpgradeMissionsOptions
    /\ item_pool = BundleAlphabet
    /\ event_list = <<>>
    /\ delivered = 0
    /\ tech = NoTech
    /\ connections = 1

\* ReceivedItems with a new upgrade bundle.
ReceiveBundle ==
    /\ delivered = Len(event_list)
    /\ Len(event_list) < MaxBundles
    /\ \E name \in item_pool :
        /\ event_list' = Append(event_list, name)
        /\ items_received' = Append(items_received, NetworkItem(item_code(name), 0, 0, 0))
    /\ delivered' = delivered + 1
    /\ UNCHANGED <<rule_table, checked_locations, available, slot_data_version,
                   generic_upgrade_missions, item_pool, tech, connections>>

NextShields ==
    \/ (tech = NoTech /\ ReceiveBundle /\ UNCHANGED <<codec_vars, session_vars, client_vars>>)
    \/ (tech = NoTech /\ CheckLocation /\ UNCHANGED <<codec_vars, session_vars, item_vars, client_vars>>)
    \/ (CalculateItems /\ UNCHANGED <<codec_vars, session_vars, client_vars>>)
    \/ (ReturnToEventLoop /\ UNCHANGED <<codec_vars, session_vars, client_vars>>)

SpecShields == InitShields /\ [][NextShields]_vars

\* Most items of a session with the deprecated Orbital Command.
MaxDeprecated == 4

\* The items the server sends in the sessions with the deprecated item.
DeprecatedAlphabet ==
    { "PROGRESSIVE_ORBITAL_COMMAND", "COMMAND_CENTER_EXTRA_SUPPLIES",
      "PROGRESSIVE_REGENERATIVE_BIO_STEEL" }

InitDeprecated ==
    /\ IdleSession
    /\ IdleCodec
    /\ IdleClient
    /\ IdleNodes
    /\ slot_data_version \in SlotDataVersions
    /\ generic_upgrade_missions \in GenericUpgradeMissionsOptions
    /\ item_pool = DeprecatedAlphabet
    /\ event_list = <<>>
    /\ delivered = 0
    /\ tech = NoTech
    /\ connections = 1

\* ReceivedItems with a new item of the deprecated-item sessions.
ReceiveDeprecated ==
    /\ delivered = Len(event_list)
    /\ Len(event_list) < MaxDeprecated
    /\ \E name \in item_pool :
        /\ event_list' = Append(event_list, name)
        /\ items_received' = Append(items_received, NetworkItem(item_code(name), 0, 0, 0))
    /\ delivered' = delivered + 1
    /\ UNCHANGED <<rule_table, checked_locations, available, slot_data_version,
                   generic_upgrade_missions, item_pool, tech, connections>>

NextDeprecated ==
    \/ (tech = NoTech /\ ReceiveDeprecated /\ UNCHANGED <<codec_vars, session_vars, client_vars>>)
    \/ (CalculateItems /\ UNCHANGED <<codec_vars, session_vars, client_vars>>)
    \/ (ReturnToEventLoop /\ UNCHANGED <<codec_vars, session_vars, client_vars>>)

SpecDeprecated == InitDeprecated /\ [][NextDeprecated]_vars

(***************************************************************************)
(* '/received recent <number>'                                             *)
(***************************************************************************)
\* The text after 'recent', stripped, is a list of characters.
MaxAmountLen == 2
AmountChars == {"-", "0", "1", "2", "x"}
Digits == <<"0", "1", "2">>
AmountStrings == UNION { [1..n -> AmountChars] : n \in 0..MaxAmountLen }

DigitValue(c) == (CHOOSE i \in DOMAIN Digits : Digits[i] = c) - 1
IsDigit(c) == \E i \in DOMAIN Digits : Digits[i] = c

RECURSIVE DecimalValue(_)
DecimalValue(chars) ==
    IF chars = <<>> THEN 0
    ELSE 10 * DecimalValue(SubSeq(chars, 1, Len(chars) - 1)) + DigitValue(chars[Len(chars)])

\* int(amount): an optional sign and at least one digit, or ValueError.
IntDigits(chars) == IF chars # <<>> /\ chars[1] = "-" THEN Tail(chars) ELSE chars
IntParses(chars) ==
    /\ IntDigits(chars) # <<>>
    /\ \A i \in DOMAIN IntDigits(chars) : IsDigit(IntDigits(chars)[i])
IntValue(chars) ==
    IF chars[1] = "-" THEN 0 - DecimalValue(IntDigits(chars)) ELSE DecimalValue(IntDigits(chars))

\* seq[start:] of Python: a negative start counts from the end, and the
\* start is clamped to the list.
SliceFrom(seq, start) ==
    LET from == IF start < 0 THEN Max(Len(seq) + start, 0) ELSE Min(start, Len(seq))
    IN SubSeq(seq, from + 1, Len(seq))

\* StarcraftClientProcessor._received_recent: the two numbers of the header
\* and the items of the lines printed after it.
received_recent(items, amount) ==
    LET parsed == IF IntParses(amount) THEN IntValue(amount) ELSE 20
        display_amount == Min(parsed, Len(items))
    IN [announced |-> display_amount,
        total |-> Len(items),
        lines |-> SliceFrom(items, 0 - display_amount)]

\* '/received recent <amount>' is typed.
CmdReceivedRecent ==
    /\ \E amount \in AmountStrings :
          received_output' = <<[amount |-> amount, output |-> received_recent(items_received, amount)]>>
    /\ UNCHANGED <<launch_vars, storage_vars, lock_vars, step_vars>>

\* A session of slot data version 4 that receives items.
InitReceived ==
    /\ IdleSession
    /\ IdleCodec
    /\ IdleClient
    /\ IdleNodes
    /\ slot_data_version = 4
    /\ generic_upgrade_missions = 0
    /\ item_pool = DeprecatedAlphabet
    /\ event_list = <<>>
    /\ delivered = 0
    /\ tech = NoTech
    /\ connections = 1

NextReceived ==
    \/ (ReceiveDeprecated /\ UNCHANGED <<codec_vars, session_vars, client_vars>>)
    \/ (CmdReceivedRecent /\ UNCHANGED <<codec_vars, node_vars, item_vars, client_vars>>)

SpecReceived == InitReceived /\ [][NextReceived]_vars

\* C28: '/received recent <number>' lists exactly the last
\* min(number, total received) items, most recent last, and announces in the
\* header the number of items it lists, for every integer number, zero and
\* negative ones included; without a valid number it uses 20.
ReceivedRecentListsLast ==
    [][received_output' # received_output =>
        LET amount == received_output'[1].amount
            output == received_output'[1].output
            number == IF IntParses(amount) THEN IntValue(amount) ELSE 20
            count == Max(Min(number, Len(items_received)), 0)
        IN /\ output.lines = SubSeq(items_received, Len(items_received) - count + 1,
                                    Len(items_received))
           /\ output.announced = Len(output.lines)]_vars

\* The items the server sends in the sessions of Kerrigan's level.
LevelAlphabet == { "KERRIGAN_LEVELS_1", "KERRIGAN_LEVELS_2" }

LevelsPerMissionOptions == {0, 2}
LevelsPerMissionCapOptions == {-1, 1, 3}
TotalLevelCapOptions == {-1, 3}

\* The options as get_kerrigan_level reads them from the context.
KerriganCtx ==
    KerriganOptions(kerrigan_levels_per_mission_completed,
                    kerrigan_levels_per_mission_completed_cap, kerrigan_total_level_cap)

InitKerrigan ==
    /\ IdleSession
    /\ IdleCodec
    /\ IdleNodes
    /\ slot_data_version = 4
    /\ generic_upgrade_missions = 0
    /\ item_pool = LevelAlphabet
    /\ event_list = <<>>
    /\ delivered = 0
    /\ tech = NoTech
    /\ connections = 1
    /\ kerrigan_levels_per_mission_completed \in LevelsPerMissionOptions
    /\ kerrigan_levels_per_mission_completed_cap \in LevelsPerMissionCapOptions
    /\ kerrigan_total_level_cap \in TotalLevelCapOptions
    /\ kerrigan_primal_status = "vanilla"
    /\ kerrigan_level = None
    /\ IdleLegacy
    /\ IdleGui
    /\ IdleBot

\* on_step, after calculate_items: the level from the accumulators and the
\* count of victory locations checked.
GetKerriganLevel ==
    /\ tech # NoTech
    /\ kerrigan_level = None
    /\ kerrigan_level' = get_kerrigan_level(KerriganCtx, tech[1].calculated.accumulators,
                                            missions_beaten_count(checked_locations))
    /\ UNCHANGED <<codec_vars, session_vars, node_vars, item_vars, kerrigan_options, legacy_vars, gui_vars, bot_vars>>

\* on_step has sent the tech with the level.
ReturnWithLevel ==
    /\ kerrigan_level # None
    /\ ReturnToEventLoop
    /\ kerrigan_level' = None
    /\ UNCHANGED <<codec_vars, session_vars, kerrigan_options, legacy_vars, gui_vars, bot_vars>>

NextKerrigan ==
    \/ (tech = NoTech /\ ReceiveItem /\ UNCHANGED <<codec_vars, session_vars, client_vars>>)
    \/ (tech = NoTech /\ CheckLocation /\ UNCHANGED <<codec_vars, session_vars, item_vars, client_vars>>)
    \/ (CalculateItems /\ UNCHANGED <<codec_vars, session_vars, client_vars>>)
    \/ GetKerriganLevel
    \/ ReturnWithLevel

SpecKerrigan == InitKerrigan /\ [][NextKerrigan]_vars

(***************************************************************************)
(* The mission table of the launcher tab                                   *)
(***************************************************************************)
\* Every mission with an unchecked location, available or not.
calc_unfinished_nodes_all_missions(ctx) ==
    LET nodes == calc_available_nodes(ctx)
    IN [available_missions |-> nodes.available_missions,
        available_layouts |-> nodes.available_layouts,
        available_campaigns |-> nodes.available_campaigns,
        unfinished_missions |->
            { m \in DOMAIN mission_id_to_location_ids :
                LET objectives == { get_location_id(m, objective) :
                                        objective \in mission_id_to_location_ids[m] }
                    objectives_completed == ctx.checked_locations \cap objectives
                IN /\ objectives # {}
                   /\ Cardinality(objectives_completed) < Cardinality(objectives) }]

calc_unfinished_nodes(ctx) ==
    LET nodes == calc_available_nodes(ctx)
    IN [available_missions |-> nodes.available_missions,
        available_layouts |-> nodes.available_layouts,
        available_campaigns |-> nodes.available_campaigns,
        unfinished_missions |->
            { m \in SeqToSet(nodes.available_missions) :
                LET objectives == { get_location_id(m, objective) :
                                        objective \in mission_id_to_location_ids[m] }
                    objectives_completed == ctx.checked_locations \cap objectives
                IN /\ objectives # {}
                   /\ Cardinality(objectives_completed) < Cardinality(objectives) }]

\* An asyncio task running starcraft_launch(ctx, mission_id).  It is
\* "running" until it returns ("done"); cancel() on a running task only
\* requests the cancellation ("cancelling"), which the event loop delivers
\* later ("cancelled").
LaunchTask(id, mission) == [id |-> id, mission_id |-> mission, state |-> "running"]

\* Task.done()
TaskDone(task) == task.state \in {"done", "cancelled"}

\* Task.cancel(): no effect on a task that is done.
TaskCancel(task) ==
    IF task.state = "running" THEN [task EXCEPT !.state = "cancelling"] ELSE task

\* The previous task is left as it is when the new one is stored.
play_mission_keep_previous(ctx, unlocked, run_task, orphans, id, mission) ==
    IF unlocked \/ is_mission_available(ctx, mission)
        THEN [returned |-> TRUE,
              sc2_run_task |-> <<LaunchTask(id, mission)>>,
              orphan_tasks |-> orphans \cup SeqToSet(run_task)]
        ELSE [returned |-> FALSE, sc2_run_task |-> run_task, orphan_tasks |-> orphans]

\* SC2Context.play_mission: the value it returns, the task the context
\* references afterwards and the tasks it references no more; id names the
\* task asyncio.create_task makes.
play_mission(ctx, unlocked, run_task, orphans, id, mission) ==
    IF unlocked \/ is_mission_available(ctx, mission)
        THEN [returned |-> TRUE,
              sc2_run_task |-> <<LaunchTask(id, mission)>>,
              orphan_tasks |-> orphans \cup { TaskCancel(task) : task \in SeqToSet(run_task) }]
        ELSE [returned |-> FALSE, sc2_run_task |-> run_task, orphan_tasks |-> orphans]

\* The rules a session of the launcher tab may give to a mission: no
\* requirement, mission 10 beaten, one RULE_ITEM received.
MissionRuleShapes ==
    << NoRequirement,
       SubRuleRuleData(<<CountMissionsRuleData(<<10>>, 1)>>, 1),
       SubRuleRuleData(<<CountItemsRule({RULE_ITEM}, 1)>>, 1) >>

\* The missions that get a button.
ButtonMissions == { slot.mission_id : slot \in { x \in AllSlots : x.mission_id # EMPTY_SLOT } }

InitGui ==
    /\ IdleSession
    /\ IdleCodec
    /\ IdleBot
    /\ IdleItems
    /\ IdleKerrigan
    /\ IdleLegacy
    /\ \E shape \in DOMAIN MissionRuleShapes :
            rule_table = [r \in RuleIds |->
                            IF r = mission_id_to_entry_rules[11].mission_rule
                                THEN MissionRuleShapes[shape] ELSE NoRequirement]
    /\ checked_locations = {}
    /\ items_received = <<>>
    /\ available = <<>>
    /\ launching = NotLaunching
    /\ refresh_from_launching = TRUE
    /\ first_check = TRUE
    /\ last_checked_locations = {}
    /\ last_data_out_of_date = FALSE
    /\ data_out_of_date \in BOOLEAN
    /\ mission_table = MissionTable("", <<>>)
    /\ refreshed = FALSE

\* SC2Manager.build_mission_table, run by the clock every half second.
BuildMissionTable ==
    /\ refreshed' = (launching = NotLaunching)
    /\ IF launching # NotLaunching
          THEN /\ refresh_from_launching' = FALSE
               /\ mission_table' = MissionTable("Launching Mission", <<>>)
               /\ UNCHANGED <<first_check, last_checked_locations, last_data_out_of_date>>
          ELSE LET needs_redraw == \/ last_checked_locations # checked_locations
                                   \/ ~refresh_from_launching
                                   \/ last_data_out_of_date # data_out_of_date
                                   \/ first_check
               IN IF ~needs_redraw
                     THEN UNCHANGED <<refresh_from_launching, first_check, last_checked_locations,
                                      last_data_out_of_date, mission_table>>
                     ELSE /\ refresh_from_launching' = TRUE
                          /\ last_data_out_of_date' = data_out_of_date
                          /\ last_checked_locations' = checked_locations
                          /\ first_check' = FALSE
                          /\ mission_table' = MissionTable("missions", <<calc_unfinished_nodes(Ctx)>>)
    /\ UNCHANGED <<launching, data_out_of_date>>
    /\ UNCHANGED <<codec_vars, session_vars, node_vars, item_vars, kerrigan_vars, legacy_vars, bot_vars>>

\* SC2Manager.mission_callback: a button is pressed outside the launching
\* state; play_mission is called, and the tab enters the launching state if
\* it returns True.
MissionCallback ==
    /\ mission_table.label = "missions"
    /\ launching = NotLaunching
    /\ play_calls < MaxLaunches
    /\ \E m \in ButtonMissions :
        LET r == play_mission(Ctx, missions_unlocked, sc2_run_task, orphan_tasks,
                              play_calls + 1, m)
        IN /\ launching' = IF r.returned THEN m ELSE launching
           /\ sc2_run_task' = r.sc2_run_task
           /\ orphan_tasks' = r.orphan_tasks
           /\ play_result' = <<[mission_id |-> m, returned |-> r.returned]>>
    /\ play_calls' = play_calls + 1
    /\ refreshed' = FALSE
    /\ UNCHANGED <<refresh_from_launching, first_check, last_checked_locations,
                   last_data_out_of_date, data_out_of_date, mission_table>>
    /\ UNCHANGED <<missions_unlocked, cmd_vars, storage_vars, lock_vars, step_vars>>
    /\ UNCHANGED <<codec_vars, node_vars, item_vars, kerrigan_vars, legacy_vars, bot_vars>>

\* StarcraftClientProcessor._cmd_disable_mission_check
DisableMissionCheck ==
    /\ ~missions_unlocked
    /\ missions_unlocked' = TRUE
    /\ UNCHANGED <<sc2_run_task, orphan_tasks, play_calls, play_result, cmd_vars, storage_vars, lock_vars, step_vars>>

\* The event loop runs a launch task: starcraft_launch returns, or a
\* requested cancellation is delivered.
TaskStep(task) ==
    [task EXCEPT !.state = IF task.state = "running" THEN "done" ELSE "cancelled"]

LaunchTaskEnds ==
    /\ \/ /\ sc2_run_task # NoTask
          /\ ~TaskDone(sc2_run_task[1])
          /\ sc2_run_task' = <<TaskStep(sc2_run_task[1])>>
          /\ UNCHANGED orphan_tasks
       \/ /\ \E task \in orphan_tasks :
                /\ ~TaskDone(task)
                /\ orphan_tasks' = (orphan_tasks \ {task}) \cup {TaskStep(task)}
          /\ UNCHANGED sc2_run_task
    /\ UNCHANGED <<missions_unlocked, play_calls, play_result, cmd_vars, storage_vars, lock_vars, step_vars>>

\* SC2Manager.finish_launching, scheduled by the callback.
FinishLaunching ==
    /\ launching # NotLaunching
    /\ launching' = NotLaunching
    /\ refreshed' = FALSE
    /\ UNCHANGED <<refresh_from_launching, first_check, last_checked_locations,
                   last_data_out_of_date, data_out_of_date, mission_table>>
    /\ UNCHANGED <<codec_vars, session_vars, node_vars, item_vars, kerrigan_vars, legacy_vars, bot_vars>>

\* The network handlers run between the ticks.
GuiFrame ==
    /\ refreshed' = FALSE
    /\ UNCHANGED <<launching, refresh_from_launching, first_check, last_checked_locations,
                   last_data_out_of_date, data_out_of_date, mission_table>>
    /\ UNCHANGED <<codec_vars, session_vars, item_vars, kerrigan_vars, legacy_vars, bot_vars>>

NextGui ==
    \/ (CheckLocation /\ GuiFrame)
    \/ (ReceiveRuleItem /\ GuiFrame)
    \/ BuildMissionTable
    \/ MissionCallback
    \/ FinishLaunching

SpecGui == InitGui /\ [][NextGui]_vars

\* The launcher tab with the command processor and the event loop.
LaunchFrame ==
    /\ refreshed' = FALSE
    /\ UNCHANGED <<launching, refresh_from_launching, first_check, last_checked_locations,
                   last_data_out_of_date, data_out_of_date, mission_table>>
    /\ UNCHANGED <<codec_vars, node_vars, item_vars, kerrigan_vars, legacy_vars, bot_vars>>

NextLaunch ==
    \/ (CheckLocation /\ GuiFrame)
    \/ (ReceiveRuleItem /\ GuiFrame)
    \/ BuildMissionTable
    \/ MissionCallback
    \/ FinishLaunching
    \/ (DisableMissionCheck /\ LaunchFrame)
    \/ (LaunchTaskEnds /\ LaunchFrame)

SpecLaunch == InitGui /\ [][NextLaunch]_vars

\* A launch task nobody has asked to stop and that has not returned.
LiveTask(task) == task.state = "running"

\* C27: a call of play_mission returns True exactly when missions_unlocked
\* is set or the mission is among the available missions of the state it is
\* called in; it then stores a new running task of that mission, after
\* cancelling the task stored before, and otherwise leaves sc2_run_task as
\* it was.  No task the context has stopped referencing is left live, so
\* the only launch task that can be live is the one in sc2_run_task.
PlayMissionLaunchesOne ==
    /\ [](\A task \in orphan_tasks : ~LiveTask(task))
    /\ [][play_calls' # play_calls =>
            LET mission == play_result'[1].mission_id
                returned == play_result'[1].returned
            IN /\ returned <=>
                    \/ missions_unlocked
                    \/ mission \in SeqToSet(calc_available_nodes(Ctx).available_missions)
               /\ returned =>
                    /\ sc2_run_task' # NoTask
                    /\ sc2_run_task' # sc2_run_task
                    /\ sc2_run_task'[1].mission_id = mission
                    /\ LiveTask(sc2_run_task'[1])
                    /\ \A task \in SeqToSet(sc2_run_task) :
                            \E old \in orphan_tasks' : old.id = task.id /\ ~LiveTask(old)
               /\ ~returned =>
                    /\ sc2_run_task' = sc2_run_task
                    /\ orphan_tasks' = orphan_tasks]_vars

\* After /disable_mission_check a second launch, of a mission that is not
\* available, has replaced a first one whose task was still running.
PlayMissionLaunchesOneWitness ==
    /\ missions_unlocked
    /\ play_calls = 2
    /\ play_result = <<[mission_id |-> 11, returned |-> TRUE]>>
    /\ ~is_mission_available(Ctx, 11)
    /\ sc2_run_task # NoTask
    /\ sc2_run_task[1].mission_id = 11
    /\ \E task \in orphan_tasks : task.state = "cancelling"

(***************************************************************************)
(* All the queries on one context                                          *)
(***************************************************************************)
InitQueries ==
    /\ IdleSession
    /\ IdleCodec
    /\ IdleBot
    /\ IdleLegacy
    /\ IdleGui
    /\ MissionElevenNeedsTen
    /\ checked_locations = {}
    /\ items_received = <<>>
    /\ available = <<>>
    /\ slot_data_version \in {3, 4}
    /\ generic_upgrade_missions = 0
    /\ item_pool = {"KERRIGAN_LEVELS_1"}
    /\ event_list = <<>>
    /\ delivered = 0
    /\ tech = NoTech
    /\ connections = 1
    /\ kerrigan_levels_per_mission_completed = 2
    /\ kerrigan_levels_per_mission_completed_cap = 3
    /\ kerrigan_total_level_cap = -1
    /\ kerrigan_primal_status = "vanilla"
    /\ kerrigan_level = None

\* A step outside SC2Manager, between two ticks.
BetweenTicks ==
    /\ refreshed' = FALSE
    /\ UNCHANGED <<launching, refresh_from_launching, first_check, last_checked_locations,
                   last_data_out_of_date, data_out_of_date, mission_table>>

NextQueries ==
    \/ (tech = NoTech /\ ReceiveItem /\ BetweenTicks
            /\ UNCHANGED <<codec_vars, session_vars, kerrigan_vars, legacy_vars, bot_vars>>)
    \/ (tech = NoTech /\ CheckLocation /\ BetweenTicks
            /\ UNCHANGED <<codec_vars, session_vars, item_vars, kerrigan_vars, legacy_vars, bot_vars>>)
    \/ (tech = NoTech /\ CalcAvailableNodes /\ BetweenTicks
            /\ UNCHANGED <<codec_vars, session_vars, item_vars, kerrigan_vars, legacy_vars, bot_vars>>)
    \/ (tech = NoTech /\ BuildMissionTable)
    \/ (CalculateItems /\ BetweenTicks /\ UNCHANGED <<codec_vars, session_vars, kerrigan_vars, legacy_vars, bot_vars>>)
    \/ GetKerriganLevel
    \/ ReturnWithLevel

SpecQueries == InitQueries /\ [][NextQueries]_vars

(***************************************************************************)
(* The tech update of on_step, suspended at each message it sends          *)
(***************************************************************************)
\* The items the server sends in the sessions of the tech update.
StepAlphabet == { "KERRIGAN_LEVELS_1", "KERRIGAN_PRIMAL_FORM" }

InitStep ==
    /\ IdleSession
    /\ IdleCodec
    /\ IdleNodes
    /\ IdleLegacy
    /\ IdleGui
    /\ slot_data_version = 4
    /\ generic_upgrade_missions = 0
    /\ item_pool = StepAlphabet
    /\ event_list = <<>>
    /\ delivered = 0
    /\ tech = NoTech
    /\ connections = 1
    /\ kerrigan_levels_per_mission_completed = 2
    /\ kerrigan_levels_per_mission_completed_cap = -1
    /\ kerrigan_total_level_cap = -1
    /\ kerrigan_primal_status \in PrimalStatusOptions
    /\ kerrigan_level = None
    /\ bot_pc = "idle"
    /\ last_received_update = 0
    /\ sent = <<>>
    /\ snapshot = NoResult

\* on_step finds new items: calculate_items, missions_beaten_count,
\* get_kerrigan_level, then updateTerranTech up to its chat_send.
StartTechUpdate ==
    /\ bot_pc = "idle"
    /\ last_received_update < Len(items_received)
    /\ CalculateItems
    /\ kerrigan_level' = get_kerrigan_level(KerriganCtx, tech'[1].calculated.accumulators,
                                            missions_beaten_count(checked_locations))
    /\ sent' = << TerranMessage(tech'[1].calculated.accumulators) >>
    /\ snapshot' = << [items_received |-> items_received,
                       checked_locations |-> checked_locations] >>
    /\ bot_pc' = "terran"
    /\ UNCHANGED <<last_received_update, kerrigan_options>>
    /\ UNCHANGED <<codec_vars, session_vars, legacy_vars, gui_vars>>

\* The Terran message is out: updateZergTech up to its chat_send.
UpdateZergTech ==
    /\ bot_pc = "terran"
    /\ sent' = Append(sent, ZergMessage(tech[1].calculated.accumulators, kerrigan_level,
                                         kerrigan_primal(kerrigan_primal_status, items_received,
                                                         checked_locations, kerrigan_level)))
    /\ bot_pc' = "zerg"
    /\ UNCHANGED <<last_received_update, snapshot>>
    /\ UNCHANGED <<codec_vars, session_vars, node_vars, item_vars, kerrigan_vars, legacy_vars, gui_vars>>

\* The Zerg message is out: updateProtossTech up to its chat_send.
UpdateProtossTech ==
    /\ bot_pc = "zerg"
    /\ sent' = Append(sent, ProtossMessage(tech[1].calculated.accumulators))
    /\ bot_pc' = "protoss"
    /\ UNCHANGED <<last_received_update, snapshot>>
    /\ UNCHANGED <<codec_vars, session_vars, node_vars, item_vars, kerrigan_vars, legacy_vars, gui_vars>>

\* The Protoss message is out: the update is recorded as done.
FinishTechUpdate ==
    /\ bot_pc = "protoss"
    /\ last_received_update' = Len(items_received)
    /\ bot_pc' = "idle"
    /\ ReturnToEventLoop
    /\ kerrigan_level' = None
    /\ UNCHANGED <<sent, snapshot, kerrigan_options>>
    /\ UNCHANGED <<codec_vars, session_vars, legacy_vars, gui_vars>>

\* on_step is suspended at every chat_send and between its runs: the network
\* handlers run at any of these points.
NextStep ==
    \/ (ReceiveItem /\ UNCHANGED <<codec_vars, session_vars, client_vars>>)
    \/ (CheckLocation /\ UNCHANGED <<codec_vars, session_vars, item_vars, client_vars>>)
    \/ StartTechUpdate
    \/ UpdateZergTech
    \/ UpdateProtossTech
    \/ FinishTechUpdate

SpecStep == InitStep /\ [][NextStep]_vars

(***************************************************************************)
(* Claims on calculate_items                                               *)
(***************************************************************************)
NetworkItemsOf(names) == [ i \in DOMAIN names |-> NetworkItem(item_code(names[i]), 0, 0, 0) ]

\* The items the server has delivered on the present connection.
DeliveredItems == NetworkItemsOf(SubSeq(event_list, 1, delivered))

SomeOrdering(S) == CHOOSE order \in Orderings(S) : TRUE

\* The accumulators of a list of received items under the session's version,
\* configuration and completed missions, computed apart from the session.
AccumulatorsOf(items_list) ==
    calculate_items(items_list, slot_data_version, SlotConfig, checked_locations,
                    SomeOrdering(API2_TO_API3_COMPAT_ITEMS),
                    SomeOrdering(API3_TO_API4_COMPAT_ITEMS)).accumulators

\* C5: whatever was computed before and however often the item list was
\* replayed, item by item, calculate_items returns the accumulators of the
\* delivered items, the version, the configuration and the completed
\* missions, leaves the received list as delivered, and the completed missions
\* are those whose victory location is checked.
ReplayGivesSameTech ==
    tech # NoTech =>
        /\ tech[1].calculated.accumulators = AccumulatorsOf(DeliveredItems)
        /\ items_received = DeliveredItems
        /\ tech[1].completed =
              { m \in DOMAIN mission_id_to_entry_rules :
                  get_location_id(m, 0) \in checked_locations }

\* A second computation, after the connection was lost and every item
\* replayed, in a session whose version implies compatibility items.
ReplayGivesSameTechWitness ==
    /\ tech # NoTech
    /\ connections >= 2
    /\ delivered = Len(event_list)
    /\ Len(event_list) >= 2
    /\ slot_data_version < 3
    /\ tech[1].completed # {}

Permute(s, p) == [ i \in DOMAIN s |-> s[p[i]] ]

HasBioSteel(items_list) ==
    \E i \in DOMAIN items_list :
        items_list[i].item = item_code("PROGRESSIVE_REGENERATIVE_BIO_STEEL")

\* C6: for slot_data_version >= 3, and for older versions when no bio-steel
\* item was received, every ordering of the received items gives the
\* accumulators that calculate_items returned.
OrderIndependent ==
    (tech # NoTech /\ (slot_data_version >= 3 \/ ~HasBioSteel(items_received))) =>
        \A p \in Orderings(DOMAIN items_received) :
            AccumulatorsOf(Permute(items_received, p)) = tech[1].calculated.accumulators

ItemKind(name) ==
    LET item_data == get_full_item_list[name]
    IN IF item_data.quantity = 1 THEN "Flag"
       ELSE IF item_data.quantity > 1 /\ item_data.number >= 0 THEN "Counter"
       ELSE IF item_data.quantity > 1 THEN "Bundle"
       ELSE "Sum"

\* Two received items of different kinds, under version 3 or 4.
OrderIndependentWitness ==
    /\ tech # NoTech
    /\ slot_data_version >= 3
    /\ Len(items_received) >= 2
    /\ ItemKind(lookup_id_to_name[items_received[1].item]) = "Counter"
    /\ ItemKind(lookup_id_to_name[items_received[2].item]) = "Bundle"

HasOrbitalCommand(items_list) ==
    \E i \in DOMAIN items_list : items_list[i].item = item_code("PROGRESSIVE_ORBITAL_COMMAND")

HasReplacement(items_list) ==
    \E i \in DOMAIN items_list : \E j \in DOMAIN replacement_item_ids :
        items_list[i].item = replacement_item_ids[j]

\* C7: when an Orbital Command item and one of its replacement items are
\* both received, calculate_items logs the warning and returns the
\* accumulators of the received items without the Orbital Command items.
OrbitalCommandShimSkipped ==
    (tech # NoTech /\ HasOrbitalCommand(items_received) /\ HasReplacement(items_received)) =>
        /\ tech[1].calculated.warned
        /\ tech[1].calculated.accumulators =
              AccumulatorsOf(SelectSeq(items_received,
                  LAMBDA network_item :
                      network_item.item # item_code("PROGRESSIVE_ORBITAL_COMMAND")))

\* The implied items calculate_items folded: what its list holds besides the
\* received items at its front.
ImpliedTail(folded) == SubSeq(folded, Len(items_received) + 1, Len(folded))

\* C8 as claimed: the list calculate_items folds ends with the received
\* items, the implied items come before them.
ImpliedItemsFoldedFirst ==
    tech # NoTech =>
        LET folded == tech[1].calculated.items
        IN SubSeq(folded, Len(folded) - Len(items_received) + 1, Len(folded)) = items_received

\* C8 as amended: the list calculate_items folds starts with the received
\* items, the implied items come after them, and the accumulators are those
\* of folding the implied items first.
ImpliedItemsFoldedLast ==
    tech # NoTech =>
        LET folded == tech[1].calculated.items
        IN /\ SubSeq(folded, 1, Len(items_received)) = items_received
           /\ tech[1].calculated.accumulators =
                 CalculateFromItems(ImpliedTail(folded) \o items_received, slot_data_version,
                                    SlotConfig, checked_locations).accumulators

\* A version with implied items, received items of other codes, and a
\* bio-steel item among them, which the order-dependent rule acts on.
ImpliedItemsFoldedLastWitness ==
    /\ tech # NoTech
    /\ slot_data_version < 3
    /\ Len(items_received) >= 2
    /\ HasBioSteel(items_received)
    /\ Len(tech[1].calculated.items) > Len(items_received)

Occurrences(items_list, code) ==
    Cardinality({ i \in DOMAIN items_list : items_list[i].item = code })

\* The copies of the item `code` that the holders of S declare.
RECURSIVE DeclaredQuantity(_, _)
DeclaredQuantity(S, code) ==
    IF S = {} THEN 0
    ELSE LET holder == CHOOSE h \in S : TRUE
         IN (IF item_code(holder.name) = code THEN holder.quantity ELSE 0)
            + DeclaredQuantity(S \ {holder}, code)

CounterNames ==
    { name \in DOMAIN get_full_item_list :
        get_full_item_list[name].quantity > 1 /\ get_full_item_list[name].number >= 0 }

FieldWidth(name) == IF get_full_item_list[name].race = "PROTOSS" THEN 4 ELSE 2

TierOf(accumulators, name) ==
    LET item_data == get_full_item_list[name]
    IN Field(accumulators[item_data.race][item_data.flag_word], item_data.number,
             Pow2(FieldWidth(name)))

\* C10: the tier in the bit field of every counter is at most the counter's
\* maximum tier, and the word holds nothing above its highest field.
TierWithinMaximum ==
    tech # NoTech =>
        \A name \in CounterNames :
            /\ TierOf(tech[1].calculated.accumulators, name) <= get_full_item_list[name].quantity
            /\ LET item_data == get_full_item_list[name]
               IN tech[1].calculated.accumulators[item_data.race][item_data.flag_word]
                     < Pow2(20)

\* The upgrade word of the Protoss accumulators.
ProtossUpgradeWord(accumulators) == accumulators["PROTOSS"][upgrade_flag_word("PROTOSS")]

\* One tier of a Protoss upgrade counter in the upgrade word.
TierBit(name) == Pow2(get_full_item_list[name].number)

\* C11: with g ground bundles and a air bundles received, the Protoss upgrade
\* word is the word of the session without items plus g tiers of ground
\* weapon and ground armor, a tiers of air weapon and air armor, and
\* max(g, a) tiers of shields.
ShieldsTakeMaximum ==
    tech # NoTech =>
        LET g == Cardinality({ i \in DOMAIN event_list :
                                   event_list[i] = "PROGRESSIVE_PROTOSS_GROUND_UPGRADE" })
            a == Cardinality({ i \in DOMAIN event_list :
                                   event_list[i] = "PROGRESSIVE_PROTOSS_AIR_UPGRADE" })
        IN ProtossUpgradeWord(tech[1].calculated.accumulators) =
               ProtossUpgradeWord(AccumulatorsOf(<<>>))
               + g * (TierBit("PROGRESSIVE_PROTOSS_GROUND_WEAPON")
                      + TierBit("PROGRESSIVE_PROTOSS_GROUND_ARMOR"))
               + a * (TierBit("PROGRESSIVE_PROTOSS_AIR_WEAPON")
                      + TierBit("PROGRESSIVE_PROTOSS_AIR_ARMOR"))
               + Max(g, a) * TierBit("PROGRESSIVE_PROTOSS_SHIELDS")

\* calculate_items has run on 2 bundles of one kind and 3 of the other.
ShieldsTakeMaximumWitness ==
    /\ tech # NoTech
    /\ Len(event_list) = 5
    /\ Cardinality({ i \in DOMAIN event_list :
                        event_list[i] = "PROGRESSIVE_PROTOSS_GROUND_UPGRADE" }) = 2
    /\ Field(ProtossUpgradeWord(tech[1].calculated.accumulators), 8, 16)
         = Field(ProtossUpgradeWord(AccumulatorsOf(<<>>)), 8, 16) + 3

\* The copies of the deprecated Orbital Command among the received items.
OrbitalCommandCopies ==
    Cardinality({ i \in DOMAIN items_received :
                    items_received[i].item = item_code("PROGRESSIVE_ORBITAL_COMMAND") })

\* The bit of a flag item in its accumulator word.
FlagBit(name) == Pow2(get_full_item_list[name].number)

\* The word of the Terran accumulators that holds the Command Center flags.
CommandCenterWord(accumulators) ==
    accumulators["TERRAN"][get_full_item_list["COMMAND_CENTER_SCANNER_SWEEP"].flag_word]

\* C21: with n >= 1 copies of the deprecated Orbital Command received and no
\* replacement item, calculate_items returns the accumulators of the other
\* received items with the Scanner Sweep and MULE bits set, and with the
\* Planetary Fortress Orbital Module bit set iff n >= 2; these bits are clear
\* without the deprecated item, and nothing else differs.
OrbitalCommandExpands ==
    (tech # NoTech /\ HasOrbitalCommand(items_received) /\ ~HasReplacement(items_received)) =>
        LET others == AccumulatorsOf(SelectSeq(items_received,
                          LAMBDA network_item :
                              network_item.item # item_code("PROGRESSIVE_ORBITAL_COMMAND")))
            word == get_full_item_list["COMMAND_CENTER_SCANNER_SWEEP"].flag_word
            bits == FlagBit("COMMAND_CENTER_SCANNER_SWEEP") + FlagBit("COMMAND_CENTER_MULE")
                    + (IF OrbitalCommandCopies >= 2
                          THEN FlagBit("PLANETARY_FORTRESS_ORBITAL_MODULE") ELSE 0)
        IN /\ ~BitIsSet(CommandCenterWord(others),
                        get_full_item_list["COMMAND_CENTER_SCANNER_SWEEP"].number)
           /\ ~BitIsSet(CommandCenterWord(others),
                        get_full_item_list["COMMAND_CENTER_MULE"].number)
           /\ ~BitIsSet(CommandCenterWord(others),
                        get_full_item_list["PLANETARY_FORTRESS_ORBITAL_MODULE"].number)
           /\ tech[1].calculated.accumulators = AddTo(others, "TERRAN", word, bits)
           /\ ~tech[1].calculated.warned

\* calculate_items has run on three copies of the deprecated item and another
\* item, and the module bit is set once.
OrbitalCommandExpandsWitness ==
    /\ tech # NoTech
    /\ OrbitalCommandCopies = 3
    /\ Len(items_received) = 4
    /\ ~HasReplacement(items_received)
    /\ Field(CommandCenterWord(tech[1].calculated.accumulators), 0, 16)
         = FlagBit("COMMAND_CENTER_SCANNER_SWEEP") + FlagBit("COMMAND_CENTER_MULE")
           + FlagBit("PLANETARY_FORTRESS_ORBITAL_MODULE")

\* The levels the received Kerrigan level items carry.
RECURSIVE ItemLevels(_)
ItemLevels(names) ==
    IF names = <<>> THEN 0
    ELSE get_full_item_list[Head(names)].number + ItemLevels(Tail(names))

\* The missions whose victory location is checked.
MissionsBeaten ==
    Cardinality({ m \in MissionIds : \E l \in checked_locations : decode_location(l) = <<m, 0>> })

\* A cap of -1 is no cap.
Capped(value, cap) == IF cap = -1 THEN value ELSE Min(value, cap)

\* C12 as stated: the level is min(item levels + missions beaten * levels
\* per mission, per-mission cap), capped again by the total cap.
KerriganLevelCapsTheSum ==
    kerrigan_level # None =>
        kerrigan_level =
            Capped(Capped(ItemLevels(event_list)
                          + MissionsBeaten * kerrigan_levels_per_mission_completed,
                          kerrigan_levels_per_mission_completed_cap),
                   kerrigan_total_level_cap)

\* C12: the level is the item levels plus min(missions beaten * levels per
\* mission, per-mission cap), the sum capped by the total cap; a cap of -1 is
\* no cap.
KerriganLevelCapsMissionLevels ==
    kerrigan_level # None =>
        kerrigan_level =
            Capped(ItemLevels(event_list)
                   + Capped(MissionsBeaten * kerrigan_levels_per_mission_completed,
                            kerrigan_levels_per_mission_completed_cap),
                   kerrigan_total_level_cap)

\* The per-mission cap cuts the mission levels while items have given levels,
\* and the total cap is off.
KerriganLevelCapsMissionLevelsWitness ==
    /\ kerrigan_level # None
    /\ ItemLevels(event_list) > 0
    /\ kerrigan_levels_per_mission_completed_cap # -1
    /\ MissionsBeaten * kerrigan_levels_per_mission_completed
            > kerrigan_levels_per_mission_completed_cap
    /\ kerrigan_total_level_cap = -1
    /\ kerrigan_level = ItemLevels(event_list) + kerrigan_levels_per_mission_completed_cap

\* C13: a mission is completed iff the location encoded from the mission and
\* objective 0 is checked, for the missions calculate_items counted and for
\* every mission id; bonus objectives and other missions' locations do not
\* count.
CompletedIffVictoryChecked ==
    /\ \A m \in MissionIds :
          is_mission_completed(checked_locations, m)
              <=> \E l \in checked_locations : decode_location(l) = <<m, 0>>
    /\ tech # NoTech =>
          \A m \in DOMAIN mission_id_to_location_ids :
              m \in tech[1].completed <=> get_location_id(m, 0) \in checked_locations

\* A bonus objective of mission 10 and the victory of mission 11 are checked,
\* the victory of mission 10 is not: 11 is counted, 10 is not.
CompletedIffVictoryCheckedWitness ==
    /\ tech # NoTech
    /\ checked_locations = {get_location_id(10, 1), get_location_id(11, 0)}
    /\ tech[1].completed = {11}

\* How many of the missions of a list are beaten.
BeatenAmong(missions, beaten) == Cardinality({ i \in DOMAIN missions : missions[i] \in beaten })

\* C14: a mission of legacy slot data is available iff both of its count
\* requirements hold: at least `number` missions of the campaign are beaten
\* (when number is set), and of its required missions at least one is beaten
\* under or_requirements, all of them otherwise.
LegacyRulesCount ==
    legacy_available # NoResult =>
        \A i \in DOMAIN mission_req_table :
            LET mission == mission_req_table[i]
                beaten == legacy_available[1].beaten_missions
                required == [ k \in DOMAIN mission.required_world |->
                                LegacyMissions[mission.required_world[k]] ]
            IN mission.mission \in legacy_available[1].available_missions
                <=> /\ mission.number # 0 => BeatenAmong(LegacyMissions, beaten) >= mission.number
                    /\ (required # <<>> /\ mission.or_requirements)
                            => BeatenAmong(required, beaten) >= 1
                    /\ (required # <<>> /\ ~mission.or_requirements)
                            => BeatenAmong(required, beaten) = Len(required)

\* Mission 11 requires missions 10 or 11 and one mission of the campaign;
\* with only mission 10 beaten it is available, and a mission requiring both
\* is not.
LegacyRulesCountWitness ==
    /\ legacy_available # NoResult
    /\ legacy_available[1].beaten_missions = {10}
    /\ mission_req_table[2] = MissionInfo(11, <<1, 2>>, "_1", 1, TRUE)
    /\ mission_req_table[1] = MissionInfo(10, <<1, 2>>, "_1", 2, FALSE)
    /\ legacy_available[1].available_missions = {11}

UnfinishedAreAvailableAndOpen ==
    mission_table.label = "missions" =>
        LET nodes == mission_table.nodes[1]
            available_missions == SeqToSet(nodes.available_missions)
        IN /\ nodes.unfinished_missions \subseteq available_missions
           /\ \A m \in ButtonMissions :
                 m \in nodes.unfinished_missions
                    <=> /\ m \in available_missions
                        /\ \E l \in server_locations \ last_checked_locations :
                              decode_location(l)[1] = m

\* The table shows mission 10 available and finished, mission 11 available
\* and unfinished.
UnfinishedAreAvailableAndOpenWitness ==
    /\ mission_table.label = "missions"
    /\ SeqToSet(mission_table.nodes[1].available_missions) = {10, 11}
    /\ mission_table.nodes[1].unfinished_missions = {11}
    /\ last_checked_locations = {get_location_id(10, 0), get_location_id(10, 1)}

\* C18: right after a refresh tick outside the launching state the mission
\* table shows the nodes of the present checked locations and received
\* items.
TableFreshAfterTick ==
    refreshed => mission_table = MissionTable("missions", <<calc_unfinished_nodes(Ctx)>>)

\* C17: a step in which a query delivers or drops a result (the available
\* nodes, the mission table with the unfinished missions, the accumulators of
\* calculate_items, Kerrigan's level) leaves items_received,
\* checked_locations and the rules of the hierarchy as they were.
QueriesLeaveContext ==
    [][ (\/ available' # available
         \/ mission_table' # mission_table
         \/ tech' # tech
         \/ kerrigan_level' # kerrigan_level)
        => UNCHANGED <<items_received, checked_locations, rule_table>> ]_vars

\* Every query holds a result, computed under a version with implied items,
\* and the received list is the delivered one.
QueriesLeaveContextWitness ==
    /\ slot_data_version < 4
    /\ tech # NoTech
    /\ Len(tech[1].calculated.items) > Len(items_received)
    /\ kerrigan_level # None
    /\ available # <<>>
    /\ mission_table.label = "missions"
    /\ checked_locations # {}
    /\ items_received # <<>>
    /\ items_received = DeliveredItems

\* The message of a tech update computed from one snapshot.
MessageOf(cmd, snap) ==
    LET current_items == calculate_items(snap.items_received, slot_data_version, SlotConfig,
                                         snap.checked_locations,
                                         SomeOrdering(API2_TO_API3_COMPAT_ITEMS),
                                         SomeOrdering(API3_TO_API4_COMPAT_ITEMS)).accumulators
        level == get_kerrigan_level(KerriganCtx, current_items,
                                    missions_beaten_count(snap.checked_locations))
    IN IF cmd = "GiveTerranTech" THEN TerranMessage(current_items)
       ELSE IF cmd = "GiveZergTech"
           THEN ZergMessage(current_items, level,
                            kerrigan_primal(kerrigan_primal_status, snap.items_received,
                                            snap.checked_locations, level))
       ELSE ProtossMessage(current_items)

\* C19: every message a tech update has sent is the message computed from
\* the items_received and checked_locations that calculate_items read at the
\* start of the update.
TechFromOneSnapshot ==
    \A i \in DOMAIN sent : sent[i] = MessageOf(sent[i].cmd, snapshot[1])

\* C29: at the end of an on_step that leaves last_received_update equal to
\* len(items_received), the list the most recent tech messages were computed
\* from holds all of these items, also when items have arrived while the
\* update was suspended in its awaits.
TechCoversAllItems ==
    (bot_pc = "idle" /\ snapshot # NoResult /\ last_received_update = Len(items_received))
        => snapshot[1].items_received = items_received

(***************************************************************************)
(* Void Trade: the units in the team's storage                             *)
(***************************************************************************)
\* The slots of one team, and the units the sessions trade.
Traders == {1, 2, 3}
TradeUnits == {"AP_Marine", "AP_Zealot"}

\* Units in the storage, over all slots.
MaxStored == 5

\* SC2Context.trade_storage_slot: TRADE_DATASTORAGE_SLOT + str(self.slot)
trade_storage_slot(slot) == <<"slot_1", "slot_2", "slot_3">>[slot]

\* dict.get(key, default)
DictGet(dict, key, default) == IF key \in DOMAIN dict THEN dict[key] ELSE default

\* dict[key] = value
DictSet(dict, key, value) == (key :> value) @@ dict

\* dict.pop(key)
DictPop(dict, key) == [k \in DOMAIN dict \ {key} |-> dict[k]]

RECURSIVE SumOf(_, _)
SumOf(f, keys) ==
    IF keys = {} THEN 0
    ELSE LET k == CHOOSE x \in keys : TRUE IN f[k] + SumOf(f, keys \ {k})

\* The own slot is read as a source like the others.
AllowedSlotsWithOwn(value, own_slot) ==
    { slot \in DOMAIN value : slot # TRADE_DATASTORAGE_LOCK }

\* allowed_slots of trade_receive
AllowedSlots(value, own_slot) ==
    { slot \in DOMAIN value : slot # TRADE_DATASTORAGE_LOCK /\ slot # own_slot }

\* available_units, with available_counts as a function on them
AvailableUnits(value, own_slot) ==
    { <<unit, slot>> \in TradeUnits \X AllowedSlots(value, own_slot) : unit \in DOMAIN value[slot] }

AvailableCounts(value, own_slot) ==
    [pair \in AvailableUnits(value, own_slot) |-> value[pair[2]][pair[1]]]

\* random.sample(available_units, amount, counts = available_counts): the
\* lists of amount elements in which no element occurs more often than its
\* count.
RECURSIVE Samples(_, _, _)
Samples(population, counts, amount) ==
    IF amount = 0 THEN { <<>> }
    ELSE UNION { { <<pair>> \o rest :
                     rest \in Samples(population, [counts EXCEPT ![pair] = @ - 1], amount - 1) } :
                 pair \in { x \in population : counts[x] > 0 } }

\* The loop over the picked units.
RECURSIVE BuildResponse(_, _, _, _, _)
BuildResponse(units, i, unit_counts, slots_to_update, value) ==
    IF i > Len(units) THEN [unit_counts |-> unit_counts, slots_to_update |-> slots_to_update]
    ELSE LET unit == units[i][1]
             slot == units[i][2]
             copied == IF slot \in DOMAIN slots_to_update THEN slots_to_update
                       ELSE DictSet(slots_to_update, slot, value[slot])
             lowered == DictSet(copied[slot], unit, copied[slot][unit] - 1)
             cleaned == IF lowered[unit] = 0 THEN DictPop(lowered, unit) ELSE lowered
         IN BuildResponse(units, i + 1,
                          DictSet(unit_counts, unit, DictGet(unit_counts, unit, 0) + 1),
                          DictSet(copied, slot, cleaned), value)

\* What is left to trade_receive once it has the reply of the lock: the
\* amount it picks and the refunds.
PickAmount(value, own_slot, amount) ==
    LET available_sum == SumOf(AvailableCounts(value, own_slot), AvailableUnits(value, own_slot))
    IN [amount |-> IF available_sum < amount THEN available_sum ELSE amount,
        refunds |-> IF available_sum < amount THEN amount - available_sum ELSE 0]

\* SC2Context.trade_receive after the lock is acquired, for the sample
\* random.sample has returned.
trade_receive(value, own_slot, amount, units) ==
    LET response == BuildResponse(units, 1, <<>>, <<>>, value)
    IN [refunds |-> PickAmount(value, own_slot, amount).refunds,
        unit_counts |-> response.unit_counts,
        slots_to_update |-> response.slots_to_update]

\* The server applies the "update" operation of a Set: dict.update.
SetUpdate(stored, value) == value @@ stored

\* trade_receive(amount) of a client whose lock attempt succeeds: the two
\* Set commands reach the server together.
TradeReceive ==
    \E slot \in Traders, amount \in {1, 5} :
        LET own_slot == trade_storage_slot(slot)
            value == SetUpdate(trade_storage, TRADE_DATASTORAGE_LOCK :> 1)
            picked == PickAmount(value, own_slot, amount).amount
        IN \E units \in Samples(AvailableUnits(value, own_slot),
                                 AvailableCounts(value, own_slot), picked) :
            LET done == trade_receive(value, own_slot, amount, units)
            IN /\ trade_storage' = SetUpdate(SetUpdate(trade_storage, done.slots_to_update),
                                             TRADE_DATASTORAGE_LOCK :> 0)
               /\ trade_result' = <<[cmd |-> "receive", slot |-> slot, amount |-> amount,
                                      refunds |-> done.refunds,
                                      unit_counts |-> done.unit_counts]>>

\* Units stored in a value of the key.
StoredUnits(value) ==
    SumOf([pair \in AvailableUnits(value, "") |-> value[pair[2]][pair[1]]],
          AvailableUnits(value, ""))

RECURSIVE AddUnits(_, _, _)
AddUnits(data, units, i) ==
    IF i > Len(units) THEN data
    ELSE AddUnits(DictSet(data, units[i], DictGet(data, units[i], 0) + 1), units, i + 1)

\* trade_send(units) of a client whose lock attempt succeeds.
TradeSend ==
    \E slot \in Traders, n \in 1..2 :
        /\ StoredUnits(trade_storage) + n <= MaxStored
        /\ \E units \in [1..n -> TradeUnits] :
            LET own_slot == trade_storage_slot(slot)
                data == AddUnits(DictGet(trade_storage, own_slot, <<>>), units, 1)
            IN /\ trade_storage' = SetUpdate(SetUpdate(trade_storage, own_slot :> data),
                                             TRADE_DATASTORAGE_LOCK :> 0)
               /\ trade_result' = <<[cmd |-> "send", slot |-> slot, amount |-> n,
                                      refunds |-> 0, unit_counts |-> <<>>]>>

InitTrade ==
    /\ IdleSession
    /\ IdleCodec
    /\ IdleNodes
    /\ IdleItems
    /\ IdleClient

NextTrade ==
    \/ (TradeReceive /\ UNCHANGED <<codec_vars, node_vars, item_vars, client_vars,
                                      launch_vars, cmd_vars, lock_vars, step_vars>>)
    \/ (TradeSend /\ UNCHANGED <<codec_vars, node_vars, item_vars, client_vars,
                                   launch_vars, cmd_vars, lock_vars, step_vars>>)

SpecTrade == InitTrade /\ [][NextTrade]_vars

\* The count of a unit in a slot of a value of the key.
UnitCount(value, slot, unit) ==
    IF slot \in DOMAIN value /\ unit \in DOMAIN value[slot] THEN value[slot][unit] ELSE 0

\* C26: trade_receive(amount) leaves the client's own slot and the set of
\* entries of the key as they are, takes min(amount, units in the other
\* slots) units in all, reports amount minus that number as refunds and the
\* units taken per kind, and leaves in every other slot the former count of
\* each unit less the units taken from it, never below zero and with no
\* entry of count zero.
TradeReceiveTakesFromOthers ==
    [][(trade_result' # trade_result /\ trade_result'[1].cmd = "receive") =>
        LET done == trade_result'[1]
            own_slot == trade_storage_slot(done.slot)
            others == DOMAIN trade_storage \ {TRADE_DATASTORAGE_LOCK, own_slot}
            pairs == TradeUnits \X others
            taken == [pair \in pairs |-> UnitCount(trade_storage, pair[2], pair[1])
                                          - UnitCount(trade_storage', pair[2], pair[1])]
            in_others == SumOf([pair \in pairs |-> UnitCount(trade_storage, pair[2], pair[1])],
                               pairs)
        IN /\ DOMAIN trade_storage' = DOMAIN trade_storage
           /\ own_slot \in DOMAIN trade_storage => trade_storage'[own_slot] = trade_storage[own_slot]
           /\ \A pair \in pairs : taken[pair] >= 0
           /\ SumOf(taken, pairs) = Min(done.amount, in_others)
           /\ done.refunds = done.amount - SumOf(taken, pairs)
           /\ \A unit \in TradeUnits :
                 DictGet(done.unit_counts, unit, 0)
                    = SumOf([slot \in others |-> taken[<<unit, slot>>]], others)
           /\ \A slot \in others : \A unit \in DOMAIN trade_storage'[slot] :
                 trade_storage'[slot][unit] > 0]_vars

\* A trade_receive(5) has found four units in two other slots beside units
\* of the client's own, has emptied a slot and reports one refund.
TradeReceiveTakesFromOthersWitness ==
    /\ trade_result # NoResult
    /\ trade_result[1].cmd = "receive"
    /\ trade_result[1].amount = 5
    /\ trade_result[1].refunds = 1
    /\ trade_result[1].unit_counts = ("AP_Marine" :> 3 @@ "AP_Zealot" :> 1)
    /\ DictGet(trade_storage, trade_storage_slot(trade_result[1].slot), <<>>) = ("AP_Marine" :> 1)
    /\ \E slot \in DOMAIN trade_storage \ {TRADE_DATASTORAGE_LOCK} : trade_storage[slot] = <<>>

(***************************************************************************)
(* Void Trade: trade_acquire_storage                                       *)
(***************************************************************************)
\* The Set of a lock attempt, and the Sets trade_receive and trade_send end with.
LockSet(c, lock) == [from |-> c, kind |-> "lock", lock |-> lock, current |-> TRUE]
ReleaseSet(c) == [from |-> c, kind |-> "release", lock |-> ZeroStamp, current |-> FALSE]

\* A new uuid4 is in no message sent before.
Outdated(messages, c) ==
    { IF m.from = c THEN [m EXCEPT !.current = FALSE] ELSE m : m \in messages }

\* trade_acquire_storage returns value to its caller; on a reply the caller
\* goes on to its two Sets, which update the storage and release the lock.
Return(trader, value) ==
    [trader EXCEPT !.pc = "idle", !.returned = value, !.timer = 0,
                   !.hold = IF value = "reply" THEN trader.lock.age ELSE trader.hold,
                   !.lock = NoStamp, !.trade_latest_reply = NoReply,
                   !.trade_reply_event = FALSE]

\* The first Set of a pass, and the wait for its reply.
SendLock(trader, c) ==
    [trader |-> [trader EXCEPT
                    !.lock = Stamp(c, 0),
                    !.trade_lock_start =
                        IF trader.trade_lock_start = NoStart /\ trader.keep_trying
                            THEN Started ELSE trader.trade_lock_start,
                    !.attempts = Min(trader.attempts + 1, 2),
                    !.trade_reply_event = FALSE,
                    !.trade_latest_reply = NoReply,
                    !.pc = "waiting",
                    !.timer = TimeoutTicks],
     sent |-> {LockSet(c, Stamp(c, 0))}]

\* The waiting limit is not looked at.
LoopPassNoLimit(trader, c, past_limit) ==
    IF ~trader.running THEN [trader |-> Return(trader, "None"), sent |-> {}]
    ELSE SendLock([trader EXCEPT !.past_limit =
                        trader.trade_lock_start # NoStart /\ past_limit], c)

\* One pass of the while loop of trade_acquire_storage up to the wait for
\* the reply: the trader afterwards and the Set it has sent, if any.  The
\* clock of the game, last_bot.time, runs, pauses and stops apart from the
\* clock of the client: past_limit tells whether it has reached
\* trade_lock_start + TRADE_LOCK_WAIT_LIMIT at this pass, and the trader
\* keeps what the pass has read.
LoopPass(trader, c, past_limit) ==
    IF ~trader.running THEN [trader |-> Return(trader, "None"), sent |-> {}]
    ELSE IF trader.trade_lock_start # NoStart /\ past_limit
        THEN [trader |-> Return([trader EXCEPT !.trade_lock_wait = 0,
                                               !.trade_lock_start = NoStart,
                                               !.past_limit = TRUE], "None"),
              sent |-> {}]
    ELSE SendLock([trader EXCEPT !.past_limit = FALSE], c)

\* The network after a client has sent Sets with a new uuid.
Send(network, c, sets) ==
    IF sets = {} THEN network
    ELSE [network EXCEPT !.sets = Outdated(network.sets, c) \cup sets]

\* await asyncio.sleep(self.trade_lock_wait)
BackoffDelay(trade_lock_wait) == trade_lock_wait

Sleep(trader, delay) ==
    [trader EXCEPT !.pc = "sleeping", !.timer = SleepTicks(delay), !.lock = NoStamp,
                   !.trade_latest_reply = NoReply, !.trade_reply_event = FALSE]

\* The reply is taken for a success without the age of the replaced lock.
ReplyChecksNoAge(trader, c, reply) ==
    IF ~(reply.from = c /\ reply.current) THEN "uuid"
    ELSE IF reply.value # trader.lock THEN "value"
    ELSE "ok"

\* The checks of trade_acquire_storage on the reply it has woken up with.
ReplyChecks(trader, c, reply) ==
    IF ~(reply.from = c /\ reply.current) THEN "uuid"
    ELSE IF reply.value # trader.lock THEN "value"
    ELSE IF StampDifference(trader.lock, reply.original_value) < TRADE_LOCK_TIME THEN "too new"
    ELSE "ok"

\* What the clock of the game may show at a pass of the loop.
PastLimits(trader) == IF trader.trade_lock_start = NoStart THEN {FALSE} ELSE BOOLEAN

\* A client presses a trade button: trade_send or trade_receive calls
\* trade_acquire_storage, which starts its first pass.
StartTrade(c) ==
    /\ trade_clients[c].pc = "idle"
    /\ trade_clients[c].running
    /\ SumOf([x \in Clients |-> trade_clients[x].calls], Clients) < MaxTrades
    /\ \E keep_trying \in BOOLEAN, past_limit \in PastLimits(trade_clients[c]) :
        LET pass == LoopPass([trade_clients[c] EXCEPT !.keep_trying = keep_trying,
                                                      !.calls = @ + 1,
                                                      !.attempts = 0, !.returned = ""],
                             c, past_limit)
        IN /\ trade_clients' = [trade_clients EXCEPT ![c] = pass.trader]
           /\ trade_network' = Send(trade_network, c, pass.sent)
    /\ UNCHANGED lock_entry

\* on_package("SetReply"): the reply a waiting client is woken up by.
SetReply(trader, reply) ==
    IF trader.pc = "waiting"
        THEN [trader EXCEPT !.trade_latest_reply = <<reply>>, !.trade_reply_event = TRUE]
        ELSE trader

\* The server runs a Set: the update operation writes the lock entry, and
\* every client of the team, all of which have asked for SetNotify, gets a
\* SetReply with the arguments of the Set, the value and the value before.
\* The time a message takes is the time of the Set; a SetReply changes
\* nothing that a client reads unless the client is waiting for one.
ServerSet ==
    \E m \in trade_network.sets :
        LET reply == [from |-> m.from, current |-> m.current,
                      value |-> m.lock, original_value |-> lock_entry]
        IN /\ lock_entry' = m.lock
           /\ trade_network' = [trade_network EXCEPT !.sets = @ \ {m}]
           /\ trade_clients' =
                 [c \in Clients |->
                    LET trader == SetReply(trade_clients[c], reply)
                    IN IF m.kind = "release" /\ m.from = c
                           THEN [trader EXCEPT !.hold = NoHold]
                           ELSE trader]

\* What trade_acquire_storage does after a failed attempt that is followed
\* by a sleep of delay seconds.
AfterFailure(trader, delay) ==
    IF ~trader.keep_trying THEN Return(trader, "None") ELSE Sleep(trader, delay)

\* The wait for the reply ends with the event set.
HandleReply(c) ==
    LET trader == trade_clients[c]
        reply == trader.trade_latest_reply[1]
        outcome == ReplyChecks(trader, c, reply)
    IN /\ trader.pc = "waiting"
       /\ trader.trade_reply_event
       /\ \/ /\ outcome \in {"uuid", "value"}
             /\ trade_clients' = [trade_clients EXCEPT ![c] = AfterFailure(trader, TRADE_LOCK_TIME)]
             /\ UNCHANGED trade_network
          \/ /\ outcome = "too new"
             /\ \E jitter \in Jitters :
                  LET waited == IF trader.keep_trying
                                    THEN [trader EXCEPT !.trade_lock_wait =
                                                @ + TRADE_LOCK_TIME + jitter]
                                    ELSE trader
                  IN trade_clients' =
                        [trade_clients EXCEPT
                            ![c] = AfterFailure(waited, BackoffDelay(waited.trade_lock_wait))]
             /\ UNCHANGED trade_network
          \/ /\ outcome = "ok"
             /\ trade_clients' =
                    [trade_clients EXCEPT
                        ![c] = Return([trader EXCEPT !.trade_lock_wait = 0,
                                                     !.trade_lock_start = NoStart], "reply")]
             /\ trade_network' = [trade_network EXCEPT !.sets = @ \cup {ReleaseSet(c)}]
       /\ UNCHANGED lock_entry

\* asyncio.TimeoutError: no reply within the five seconds.
ReplyTimeout(c) ==
    LET trader == trade_clients[c]
    IN /\ trader.pc = "waiting"
       /\ trader.timer = 0
       /\ IF ~trader.keep_trying
             THEN /\ trade_clients' = [trade_clients EXCEPT ![c] = Return(trader, "None")]
                  /\ UNCHANGED trade_network
             ELSE \E past_limit \in PastLimits(trader) :
                    LET pass == LoopPass(trader, c, past_limit)
                    IN /\ trade_clients' = [trade_clients EXCEPT ![c] = pass.trader]
                       /\ trade_network' = Send(trade_network, c, pass.sent)
       /\ UNCHANGED lock_entry

\* The sleep is over: the next pass of the loop.
WakeUp(c) ==
    /\ trade_clients[c].pc = "sleeping"
    /\ trade_clients[c].timer = 0
    /\ \E past_limit \in PastLimits(trade_clients[c]) :
          LET pass == LoopPass(trade_clients[c], c, past_limit)
          IN /\ trade_clients' = [trade_clients EXCEPT ![c] = pass.trader]
             /\ trade_network' = Send(trade_network, c, pass.sent)
    /\ UNCHANGED lock_entry

\* The client is closed, or its game is over: the guard of the loop fails
\* from now on.
GameOver(c) ==
    /\ trade_clients[c].pc # "idle"
    /\ trade_clients[c].running
    /\ trade_clients' = [trade_clients EXCEPT ![c].running = FALSE]
    /\ UNCHANGED <<lock_entry, trade_network>>

\* A client has something to do now.
Due(c) ==
    \/ trade_clients[c].pc \in {"waiting", "sleeping"} /\ trade_clients[c].timer = 0
    \/ trade_clients[c].pc = "waiting" /\ trade_clients[c].trade_reply_event

NetworkBusy == trade_network.sets # {}

Timers == { trade_clients[c].timer : c \in { x \in Clients : trade_clients[x].pc # "idle" } }

NextTimer == CHOOSE t \in Timers : \A u \in Timers : t <= u

\* The steps time may take: one tick while something has happened lately or
\* is about to, and a leap to the ticks around the next timer otherwise.
Leaps ==
    IF NetworkBusy \/ Timers = {} THEN {1}
    ELSE {1} \cup { NextTimer - k : k \in 0..Min(AgeCap, NextTimer - 1) }

Recent ==
    \/ lock_entry.by # 0 /\ lock_entry.age < AgeCap
    \/ \E c \in Clients : trade_clients[c].hold \notin {NoHold, AgeCap}

AgedReply(reply, d) ==
    [reply EXCEPT !.value = AgedStamp(@, d), !.original_value = AgedStamp(@, d)]

AgedTrader(trader, d) ==
    [trader EXCEPT
        !.timer = IF trader.pc = "idle" THEN 0 ELSE @ - d,
        !.lock = AgedStamp(@, d),
        !.hold = IF @ = NoHold THEN NoHold ELSE Older(@, d),
        !.trade_latest_reply = IF @ = NoReply THEN NoReply ELSE <<AgedReply(@[1], d)>>]

\* Time passes.
Tick ==
    /\ \A c \in Clients : ~Due(c)
    /\ NetworkBusy => trade_network.slow < MaxSlow
    /\ NetworkBusy \/ Timers # {} \/ Recent
    /\ \E d \in Leaps :
        /\ (d = 1 /\ ~NetworkBusy /\ Timers # {}) => (Recent \/ NextTimer <= AgeCap + 1)
        /\ lock_entry' = AgedStamp(lock_entry, d)
        /\ trade_clients' = [c \in Clients |-> AgedTrader(trade_clients[c], d)]
        /\ trade_network' =
              [sets |-> { [m EXCEPT !.lock = AgedStamp(@, d)] : m \in trade_network.sets },
               slow |-> IF NetworkBusy THEN trade_network.slow + 1 ELSE trade_network.slow]

InitLock ==
    /\ IdleSession
    /\ IdleCodec
    /\ IdleNodes
    /\ IdleItems
    /\ IdleClient

LockFrame == UNCHANGED <<codec_vars, node_vars, item_vars, client_vars,
                         launch_vars, cmd_vars, storage_vars, step_vars>>

NextLock ==
    \/ \E c \in Clients : StartTrade(c) /\ LockFrame
    \/ ServerSet /\ LockFrame
    \/ \E c \in Clients : HandleReply(c) /\ LockFrame
    \/ \E c \in Clients : ReplyTimeout(c) /\ LockFrame
    \/ \E c \in Clients : WakeUp(c) /\ LockFrame
    \/ \E c \in Clients : GameOver(c) /\ LockFrame
    \/ Tick /\ LockFrame

SpecLock == InitLock /\ [][NextLock]_vars

\* The clients that have acquired the lock less than TRADE_LOCK_TIME ago
\* and whose release the server has not run.
Holders ==
    { c \in Clients : /\ trade_clients[c].hold # NoHold
                       /\ trade_clients[c].hold * TickMs < TRADE_LOCK_TIME }

\* C24: at most one client at a time holds the lock: no client has acquired
\* it while another one had acquired it less than TRADE_LOCK_TIME
\* milliseconds earlier and had not released it.
LockHeldByOne == Cardinality(Holders) <= 1

\* trade_acquire_storage of client c returns in this step.
Returns(c) ==
    /\ trade_clients'[c].pc = "idle"
    /\ trade_clients[c].pc # "idle" \/ trade_clients'[c].calls # trade_clients[c].calls

\* The reply the client has woken up with answers its latest Set, holds the
\* value it wrote, and replaced a lock of TRADE_LOCK_TIME milliseconds or more.
ChecksPassed(trader, c) ==
    /\ trader.trade_latest_reply # NoReply
    /\ LET reply == trader.trade_latest_reply[1]
       IN /\ reply.from = c
          /\ reply.current
          /\ reply.value = trader.lock
          /\ StampDifference(trader.lock, reply.original_value) >= TRADE_LOCK_TIME

\* The pass that returns finds the clock of the game past the waiting limit.
LimitPassed(c) ==
    /\ trade_clients[c].trade_lock_start = Started
    /\ trade_clients'[c].trade_lock_start = NoStart
    /\ trade_clients'[c].trade_lock_wait = 0

ReturnResets ==
    [][\A c \in Clients :
          Returns(c) =>
            /\ trade_clients'[c].trade_lock_start = NoStart
            /\ trade_clients'[c].trade_lock_wait = 0]_vars

\* The server runs every Set, a wait ends with its reply or its timeout, a
\* sleep ends, and time passes; nothing makes a client trade or stop.
SpecBackoff ==
    /\ InitLock
    /\ [][NextLock]_vars
    /\ WF_vars(ServerSet /\ LockFrame)
    /\ WF_vars(Tick /\ LockFrame)
    /\ \A c \in Clients :
          /\ WF_vars(HandleReply(c) /\ LockFrame)
          /\ WF_vars(ReplyTimeout(c) /\ LockFrame)
          /\ WF_vars(WakeUp(c) /\ LockFrame)

\* Every client is in trade_acquire_storage with keep_trying true.
AllRetrying ==
    \A c \in Clients : trade_clients[c].pc # "idle" /\ trade_clients[c].keep_trying

SomeAcquired ==
    \E c \in Clients : trade_clients[c].pc = "idle" /\ trade_clients[c].returned = "reply"

\* A client or its game has stopped, or a client is past the waiting limit.
SomeStopped ==
    \E c \in Clients :
        \/ ~trade_clients[c].running
        \/ trade_clients[c].pc = "idle" /\ trade_clients[c].returned = "None"

\* C30: when the clients keep retrying trade_acquire_storage with
\* keep_trying true, then, unless one of them stops, some client eventually
\* acquires the lock.
RetryingAcquires == AllRetrying ~> (SomeAcquired \/ SomeStopped)

\* A pass of the loop of client c that finds the clock of the game past the
\* waiting limit.
PassPastLimit(c) ==
    /\ WakeUp(c) \/ ReplyTimeout(c)
    /\ trade_clients'[c].past_limit

\* trade_underway keeps a client from a second trade while one is under
\* way: here each client calls trade_acquire_storage once.
NextOneCall ==
    /\ NextLock
    /\ \A c \in Clients : trade_clients'[c].calls <= 1

\* The scheduling of SpecBackoff, and the clock of a running game goes on:
\* of the passes of a loop that does not end, one finds it past the
\* waiting limit.
SpecTerminate ==
    /\ InitLock
    /\ [][NextOneCall]_vars
    /\ WF_vars(ServerSet /\ LockFrame)
    /\ WF_vars(Tick /\ LockFrame)
    /\ \A c \in Clients :
          /\ WF_vars(HandleReply(c) /\ LockFrame)
          /\ WF_vars(ReplyTimeout(c) /\ LockFrame)
          /\ WF_vars(WakeUp(c) /\ LockFrame)
          /\ SF_vars(PassPastLimit(c) /\ LockFrame)

TRADE_SEND_BUTTON == "AP_TradeStructureDummySend"
TRADE_RECEIVE_1_BUTTON == "AP_TradeStructureDummyReceive"
TRADE_RECEIVE_5_BUTTON == "AP_TradeStructureDummyReceive5"

\* Names of units, as the sequences of their parts.
AP_Marine == <<"AP", "_", "Marine">>
APMarine == <<"AP", "Marine">>

\* unit_name.startswith(prefix)
StartsWith(name, prefix) ==
    Len(name) >= Len(prefix) /\ SubSeq(name, 1, Len(prefix)) = prefix

\* What on_step finds among all_own_units: the health the two controllers
\* have lost (None without the unit), and the trade structure.
NoUnit == <<>>
Controller1States == {None, 6, 7}
Controller2States == {None, 16384}
Cargoes == {{}, {AP_Marine}, {AP_Marine, APMarine}}
Buttons == {TRADE_SEND_BUTTON, TRADE_RECEIVE_1_BUTTON, TRADE_RECEIVE_5_BUTTON, "Research"}
TradeStructures ==
    {NoUnit}
        \cup { <<[is_idle |-> TRUE, button_name |-> "", passengers |-> cargo]>> :
                    cargo \in Cargoes }
        \cup { <<[is_idle |-> FALSE, button_name |-> button, passengers |-> {}]>> :
                    button \in Buttons }
Supplies == {0, 10}

\* The missions a bot is started for, and the missions that end the game.
BotMissions == {1, ALL_IN_id}
FinalMissions == {{ALL_IN_id}, {1, ALL_IN_id}}

\* game_state = controller1_state + (controller2_state << 15)
GameState(controller1, controller2) ==
    (IF controller1 = None THEN 0 ELSE controller1)
        + ShiftLeft(IF controller2 = None THEN 0 ELSE controller2, 15)

\* An asyncio task running trade_send(arg) or trade_receive(arg).
TradeTask(call, arg) == [call |-> call, arg |-> arg, pc |-> "acquire"]

RejectedInvalidUnits == <<"?TradeFail Void Trade rejected: Trade contains invalid units.">>
RejectedSupply == <<"?TradeFail Void Trade rejected: Not enough supply.">>

\* A trade is asked for whatever trade_underway is.
MayStartTradeUnderway(unit, underway) == ~unit.is_idle

\* if not unit.is_idle and not self.ctx.trade_underway
MayStartTrade(unit, underway) == ~unit.is_idle /\ ~underway

\* The branch of the unit loop for the trade structure: the fields it
\* leaves and the tasks it starts.
TradeRequest(unit, supply_used, underway, response, cargo, supply) ==
    LET kept == [trade_underway |-> underway, trade_response |-> response,
                 last_trade_cargo |-> cargo, last_supply_used |-> supply,
                 started |-> <<>>]
        non_ap_units == { name \in cargo : ~StartsWith(name, <<"AP", "_">>) }
        units_to_send == cargo \ non_ap_units
        receive(amount) ==
            IF supply_used # supply
                THEN [kept EXCEPT !.trade_underway = TRUE, !.trade_response = NoResult,
                                  !.started = <<TradeTask("trade_receive", amount)>>]
                ELSE [kept EXCEPT !.trade_underway = TRUE, !.trade_response = RejectedSupply]
    IN IF MayStartTrade(unit, underway)
          THEN IF unit.button_name = TRADE_SEND_BUTTON /\ Cardinality(cargo) > 0
                   THEN IF Cardinality(non_ap_units) > 0
                            THEN [kept EXCEPT !.trade_underway = TRUE,
                                              !.trade_response = RejectedInvalidUnits]
                            ELSE [kept EXCEPT !.trade_underway = TRUE,
                                              !.trade_response = NoResult,
                                              !.started = <<TradeTask("trade_send", units_to_send)>>]
               ELSE IF unit.button_name = TRADE_RECEIVE_1_BUTTON THEN receive(1)
               ELSE IF unit.button_name = TRADE_RECEIVE_5_BUTTON THEN receive(5)
               ELSE kept
          ELSE [kept EXCEPT !.last_trade_cargo = unit.passengers,
                            !.last_supply_used = supply_used]

\* The unit loop of on_step over the units it is given, up to the tech update.
StepUnits(controller1, controller2, trade, supply_used) ==
    \E request \in
           { IF trade = NoUnit
                 THEN [trade_underway |-> trade_underway,
                       trade_response |-> trade_response,
                       last_trade_cargo |-> last_trade_cargo,
                       last_supply_used |-> last_supply_used,
                       started |-> <<>>]
                 ELSE TradeRequest(trade[1], supply_used, trade_underway, trade_response,
                                   last_trade_cargo, last_supply_used) } :
       /\ can_read_game' = (can_read_game \/ controller1 # None \/ controller2 # None)
       /\ game_state' = GameState(controller1, controller2)
       /\ trade_underway' = request.trade_underway
       /\ trade_response' = request.trade_response
       /\ last_trade_cargo' = request.last_trade_cargo
       /\ last_supply_used' = request.last_supply_used
       /\ trade_tasks' = trade_tasks \o request.started
       /\ chat' = <<>>
       /\ step_pc' = "tech"
       /\ UNCHANGED <<setup_done, trade_sent>>

\* on_step is called: the setup at the first step, the unit loop afterwards.
StepBegin ==
    /\ step_pc = "idle"
    /\ IF ~setup_done
          THEN /\ setup_done' = TRUE
               /\ UNCHANGED <<step_pc, game_state, can_read_game, void_vars>>
          ELSE \E controller1 \in Controller1States, controller2 \in Controller2States,
                  trade \in TradeStructures, supply_used \in Supplies :
                 StepUnits(controller1, controller2, trade, supply_used)
    /\ UNCHANGED <<game_running, mission_completed, boni, final_mission_ids, finished_game,
                   location_checks>>

\* The bag of the elements of a sequence.
SeqToBag(seq) ==
    [e \in { seq[i] : i \in DOMAIN seq } |-> Cardinality({ i \in DOMAIN seq : seq[i] = e })]

\* final_locations, as the Connected handler derives it.
final_locations(final) == { get_location_id(m, 0) : m \in final }

send_victory(mission, final, checked) ==
    /\ mission \in final
    /\ Cardinality(final_locations(final))
          = Cardinality((checked \cup {get_location_id(mission, 0)})
                            \cap final_locations(final))

\* The victory branch: the locations sent, and the two flags afterwards.
ReportVictory(mission, state, completed, finished, final, checked, version) ==
    IF BitIsSet(state, 1) /\ ~completed
        THEN LET goal == send_victory(mission, final, checked)
                 check == ~goal \/ version >= 4
             IN [sent |-> IF check THEN <<get_location_id(mission, 0)>> ELSE <<>>,
                 mission_completed |-> check \/ goal,
                 finished_game |-> finished \/ goal]
        ELSE [sent |-> <<>>, mission_completed |-> completed, finished_game |-> finished]

\* The bonus objective stays unsent.
MarkBonusNever(done, x) == done

\* self.boni[x] = True
MarkBonus(done, x) == [done EXCEPT ![x] = TRUE]

\* for x, completed in enumerate(self.boni)
RECURSIVE ReportBoni(_, _, _, _, _)
ReportBoni(x, done, state, mission, sent_so_far) ==
    IF x >= MAX_BONUS THEN [boni |-> done, sent |-> sent_so_far]
    ELSE IF ~done[x] /\ BitIsSet(state, x + 2)
        THEN ReportBoni(x + 1, MarkBonus(done, x), state, mission,
                        Append(sent_so_far, get_location_id(mission, x + 1)))
        ELSE ReportBoni(x + 1, done, state, mission, sent_so_far)

\* on_step after the tech update: the game is heard, and the objectives it
\* shows are sent.  game_state is a local of on_step that is not read
\* afterwards, which the model leaves at 0.
StepObjectives ==
    /\ step_pc = "tech"
    /\ IF BitIsSet(game_state, 0)
          THEN /\ game_running' = TRUE
               /\ IF can_read_game
                     THEN LET victory == ReportVictory(mission_id, game_state,
                                              mission_completed, finished_game,
                                              final_mission_ids, checked_locations,
                                              slot_data_version)
                              bonus == ReportBoni(0, boni, game_state, mission_id, <<>>)
                          IN /\ mission_completed' = victory.mission_completed
                             /\ finished_game' = victory.finished_game
                             /\ boni' = bonus.boni
                             /\ location_checks' =
                                    location_checks (+) SeqToBag(victory.sent \o bonus.sent)
                             /\ step_pc' = "trade result"
                     ELSE /\ step_pc' = "idle"
                          /\ UNCHANGED <<mission_completed, finished_game, boni,
                                         location_checks>>
          ELSE /\ step_pc' = "idle"
               /\ UNCHANGED <<game_running, mission_completed, finished_game, boni,
                              location_checks>>
    /\ game_state' = 0
    /\ UNCHANGED <<setup_done, can_read_game, final_mission_ids, void_vars>>

\* on_step, "Send Void Trade results"
StepTradeResult ==
    /\ step_pc = "trade result"
    /\ step_pc' = "idle"
    /\ IF trade_response # NoResult
          THEN /\ chat' = trade_response
               /\ trade_response' = NoResult
               /\ trade_underway' = FALSE
               /\ trade_sent' = <<>>
          ELSE UNCHANGED <<chat, trade_response, trade_underway, trade_sent>>
    /\ game_state' = 0
    /\ UNCHANGED <<setup_done, game_running, can_read_game, mission_completed,
                   boni, final_mission_ids, finished_game, location_checks,
                   last_trade_cargo, last_supply_used, trade_tasks>>

RemoveAt(seq, i) == SubSeq(seq, 1, i - 1) \o SubSeq(seq, i + 1, Len(seq))

\* The two Sets of a trade.  The update of the storage is computed from
\* the reply, and is named here by the call that computes it.
StorageSet(task) ==
    [cmd |-> "Set", operation |-> "update", value |-> [call |-> task.call, arg |-> task.arg]]
ReleaseLock ==
    [cmd |-> "Set", operation |-> "update", value |-> (TRADE_DATASTORAGE_LOCK :> 0)]

\* The lock is not released.
TradeBatchNoRelease(task) == <<StorageSet(task)>>

\* The one send_msgs of trade_send and of trade_receive.
TradeBatch(task) == <<StorageSet(task), ReleaseLock>>

TradeFailed(task) ==
    IF task.call = "trade_send"
        THEN <<"?TradeFail Void Trade failed: Could not communicate with server. Your units remain.">>
        ELSE <<"?TradeFail Void Trade failed: Could not communicate with server. Trade cost refunded.">>

TradeDone(task) ==
    IF task.call = "trade_send"
        THEN <<"?TradeSuccess Void Trade successful: Units sent!">>
        ELSE <<"?Trade">>

\* trade_acquire_storage has returned None to a trade.
TaskFails ==
    /\ \E i \in DOMAIN trade_tasks :
        /\ trade_tasks[i].pc = "acquire"
        /\ trade_response' = TradeFailed(trade_tasks[i])
        /\ trade_tasks' = RemoveAt(trade_tasks, i)
    /\ UNCHANGED <<objective_vars, last_trade_cargo, last_supply_used, trade_underway,
                   trade_sent, chat>>

\* trade_acquire_storage has returned a reply to a trade, which sends its Sets.
TaskAcquires ==
    /\ \E i \in DOMAIN trade_tasks :
        /\ trade_tasks[i].pc = "acquire"
        /\ trade_sent' = Append(trade_sent, TradeBatch(trade_tasks[i]))
        /\ trade_tasks' = [trade_tasks EXCEPT ![i].pc = "send_msgs"]
    /\ UNCHANGED <<objective_vars, last_trade_cargo, last_supply_used, trade_underway,
                   trade_response, chat>>

\* send_msgs has returned to a trade, which sets the response and ends.
TaskResponds ==
    /\ \E i \in DOMAIN trade_tasks :
        /\ trade_tasks[i].pc = "send_msgs"
        /\ trade_response' = TradeDone(trade_tasks[i])
        /\ trade_tasks' = RemoveAt(trade_tasks, i)
    /\ UNCHANGED <<objective_vars, last_trade_cargo, last_supply_used, trade_underway,
                   trade_sent, chat>>

InitMission ==
    /\ IdleLaunch /\ IdleCmd /\ IdleStorage /\ IdleLock
    /\ IdleBotFields
    /\ IdleClient
    /\ mission_id \in BotMissions
    /\ objective_id = 0
    /\ loc = None
    /\ decoded = NoPair
    /\ reencoded = None
    /\ final_mission_ids \in FinalMissions
    /\ rule_table = [r \in RuleIds |-> NoRequirement]
    /\ checked_locations = {get_location_id(1, 0)}
    /\ items_received = <<>>
    /\ available = <<>>
    /\ slot_data_version \in {3, 4}
    /\ generic_upgrade_missions = 0
    /\ item_pool = {}
    /\ event_list = <<>>
    /\ delivered = 0
    /\ tech = NoTech
    /\ connections = 0

MissionFrame == UNCHANGED <<codec_vars, node_vars, item_vars, client_vars,
                            launch_vars, cmd_vars, storage_vars, lock_vars>>

NextMission ==
    \/ StepBegin /\ MissionFrame
    \/ StepObjectives /\ MissionFrame
    \/ StepTradeResult /\ MissionFrame
    \/ TaskFails /\ MissionFrame
    \/ TaskAcquires /\ MissionFrame
    \/ TaskResponds /\ MissionFrame

SpecMission == InitMission /\ [][NextMission]_vars

Rejections == {RejectedInvalidUnits, RejectedSupply}

\* A step starts a trade: it starts a task, or it rejects the request.
StartsTrade ==
    /\ step_pc = "idle"
    /\ \/ Len(trade_tasks') > Len(trade_tasks)
       \/ trade_response' \in Rejections /\ trade_response' # trade_response

\* A request the unit loop has to reject: a send with a unit whose name
\* does not begin with AP_, or a receive with the supply unchanged.
MustReject(unit, supply_used) ==
    /\ ~unit.is_idle
    /\ \/ /\ unit.button_name = TRADE_SEND_BUTTON
          /\ \E name \in last_trade_cargo : ~StartsWith(name, <<"AP", "_">>)
       \/ /\ unit.button_name \in {TRADE_RECEIVE_1_BUTTON, TRADE_RECEIVE_5_BUTTON}
          /\ supply_used = last_supply_used

\* C34: a trade (a task or a rejection) starts only in a step that finds
\* trade_underway false, and that step sets it; trade_underway becomes
\* false only in the step that sends a trade_response other than None to
\* the game; at most one trade task is in flight; and a send with a unit
\* that is not an AP_ unit, or a receive without a change of the supply,
\* starts no task.
OneTradeUnderway ==
    /\ [][StartsTrade => ~trade_underway /\ trade_underway']_vars
    /\ [][trade_underway /\ ~trade_underway' =>
              /\ step_pc = "trade result"
              /\ trade_response # NoResult
              /\ chat' = trade_response]_vars
    /\ [](Len(trade_tasks) <= 1)
    /\ [][step_pc = "idle" /\ Len(trade_tasks') > Len(trade_tasks) =>
              \A controller1 \in Controller1States, controller2 \in Controller2States,
                 trade \in TradeStructures \ {NoUnit}, supply_used \in Supplies :
                   StepUnits(controller1, controller2, trade, supply_used)
                       => ~MustReject(trade[1], supply_used)]_vars

\* A trade_receive is in flight and has sent its Sets, in a mission whose
\* victory was sent already, while a step is about to find no response.
OneTradeUnderwayWitness ==
    /\ step_pc = "trade result"
    /\ trade_response = NoResult
    /\ trade_underway
    /\ Len(trade_tasks) = 1
    /\ trade_tasks[1].call = "trade_receive"
    /\ trade_tasks[1].pc = "send_msgs"
    /\ last_trade_cargo = {AP_Marine}
    /\ mission_completed

\* The message sets the lock of the storage to 0.
IsRelease(message) ==
    /\ message.cmd = "Set"
    /\ message.operation = "update"
    /\ DOMAIN message.value = {TRADE_DATASTORAGE_LOCK}
    /\ message.value[TRADE_DATASTORAGE_LOCK] = 0

\* C32: a trade_send or trade_receive that acquired the lock has sent, by
\* the time it sets trade_response, one batch of two messages, its update
\* of the storage first and the release of the lock second; one that did
\* not acquire the lock has sent nothing when it sets trade_response.
TradeReleasesLock ==
    /\ [][trade_tasks # <<>> /\ trade_tasks' = <<>> =>
              LET task == trade_tasks[1]
              IN IF task.pc = "send_msgs"
                    THEN /\ Len(trade_sent) = 1
                         /\ Len(trade_sent[1]) = 2
                         /\ trade_sent[1][1] = StorageSet(task)
                         /\ ~IsRelease(trade_sent[1][1])
                         /\ IsRelease(trade_sent[1][2])
                         /\ trade_sent' = trade_sent
                         /\ trade_response = NoResult
                         /\ trade_response' = TradeDone(task)
                    ELSE /\ trade_sent = <<>>
                         /\ trade_sent' = <<>>
                         /\ trade_response' = TradeFailed(task)]_vars
    /\ [](\A i \in DOMAIN trade_tasks :
              trade_tasks[i].pc = "acquire" => trade_sent = <<>>)

\* A trade_receive of 5 units has sent its batch and set its response,
\* which no step has delivered yet.
TradeReleasesLockWitness ==
    /\ trade_tasks = <<>>
    /\ trade_underway
    /\ trade_response = TradeDone(TradeTask("trade_receive", 5))
    /\ Len(trade_sent) = 1
    /\ IsRelease(trade_sent[1][2])
    /\ trade_sent[1][1].value.arg = 5

\* The objectives of the mission, 0 for the victory and x + 1 for bonus x.
MissionObjectives == 0..MAX_BONUS

\* C35: over the steps of one bot the victory location and the location of
\* each bonus objective are sent at most once; a step sends a location only
\* when the game is connected (bit 0 of game_state) and can_read_game holds,
\* and only with the bit of its objective set in game_state; every location
\* sent is get_location_id(mission_id, k) with 0 <= k <= MAX_BONUS.
ObjectivesSentOnce ==
    /\ [](\A l \in BagToSet(location_checks) : CopiesIn(l, location_checks) <= 1)
    /\ [](\A l \in BagToSet(location_checks) :
              \E k \in MissionObjectives : l = get_location_id(mission_id, k))
    /\ [][location_checks' # location_checks =>
              /\ step_pc = "tech"
              /\ BitIsSet(game_state, 0)
              /\ can_read_game
              /\ \A k \in MissionObjectives :
                    CopiesIn(get_location_id(mission_id, k), location_checks')
                        > CopiesIn(get_location_id(mission_id, k), location_checks)
                    => BitIsSet(game_state, k + 1)]_vars

\* The victory of a mission that does not end the game, its first bonus
\* objective and its last one were sent by the steps of a connected game.
ObjectivesSentOnceWitness ==
    /\ location_checks = SetToBag({ get_location_id(mission_id, k) : k \in {0, 1, MAX_BONUS} })
    /\ mission_completed
    /\ ~finished_game
    /\ boni[0] /\ boni[MAX_BONUS - 1]
    /\ step_pc = "trade result"
    /\ game_running

(***************************************************************************)
(* The location codec run on one pair                                      *)
(***************************************************************************)
InitCodec ==
    /\ IdleSession
    /\ mission_id \in MissionIds
    /\ objective_id \in ObjectiveIds
    /\ loc = None
    /\ decoded = NoPair
    /\ reencoded = None
    /\ IdleNodes
    /\ IdleItems
    /\ IdleClient

Encode ==
    /\ loc = None
    /\ loc' = get_location_id(mission_id, objective_id)
    /\ UNCHANGED <<mission_id, objective_id, decoded, reencoded>>
    /\ UNCHANGED <<node_vars, item_vars, client_vars, session_vars>>

Decode ==
    /\ loc # None
    /\ decoded = NoPair
    /\ decoded' = decode_location(loc)
    /\ UNCHANGED <<mission_id, objective_id, loc, reencoded>>
    /\ UNCHANGED <<node_vars, item_vars, client_vars, session_vars>>

ReEncode ==
    /\ decoded # NoPair
    /\ reencoded = None
    /\ reencoded' = get_location_id(decoded[1], decoded[2])
    /\ UNCHANGED <<mission_id, objective_id, loc, decoded>>
    /\ UNCHANGED <<node_vars, item_vars, client_vars, session_vars>>

NextCodec == Encode \/ Decode \/ ReEncode

SpecCodec == InitCodec /\ [][NextCodec]_vars

\* Objective indexes a caller may pass: the encodable ones and the first on
\* either side of them.
AnyObjectiveIds == -1..VICTORY_MODULO

InitEncode ==
    /\ IdleSession
    /\ mission_id \in MissionIds
    /\ objective_id \in AnyObjectiveIds
    /\ loc = None
    /\ decoded = NoPair
    /\ reencoded = None
    /\ IdleNodes
    /\ IdleItems
    /\ IdleClient

SpecEncode == InitEncode /\ [][NextCodec]_vars

\* C20: get_location_id returns an id only for an objective index within
\* 0..99, and the id it returns belongs to no other pair of the mission table.
EncodeRejectsInvalidObjective ==
    loc # None =>
        /\ objective_id \in ObjectiveIds
        /\ \A m \in MissionIds : \A o \in ObjectiveIds :
              get_location_id(m, o) = loc => (m = mission_id /\ o = objective_id)

\* C1: decoding an encoded (mission, objective) pair returns exactly that
\* pair, re-encoding the decoded pair returns the same id, and the encoded id
\* is not the id of any other pair of the mission table.
CodecRoundTrip ==
    /\ decoded # NoPair => decoded = <<mission_id, objective_id>>
    /\ reencoded # None => reencoded = loc
    /\ loc # None =>
        \A m \in MissionIds : \A o \in ObjectiveIds :
            get_location_id(m, o) = loc => (m = mission_id /\ o = objective_id)

\* A late-expansion pair (mission id above ALL_IN) has gone the whole round.
CodecRoundTripWitness ==
    /\ mission_id > ALL_IN_id
    /\ objective_id = VICTORY_MODULO - 1
    /\ decoded = <<mission_id, objective_id>>
    /\ reencoded = loc


====
